---- MODULE Spec2Model ----
(***************************************************************************)
(* Verification model of the VLSI-LLM data-generation and evaluation flow. *)
(*                                                                         *)
(* Each stage of the flow is a batch program of its own; the module holds  *)
(* one state machine per stage, each with its own specification:           *)
(*   SpecSweep    - one call of synthesize_rtl (synthesize.py)             *)
(*   SpecSynth    - the synthesis orchestrator main (synthesize.py)        *)
(*   SpecAnon     - anonymize_modules, both variants                       *)
(*   SpecAnalyze  - the static/dataflow analyzer main (pyverilog.py)       *)
(*   SpecAssemble - the RTL dataset assembler main (generate_rtl_json.py)  *)
(*   SpecJudge    - the batch loop of vlsi_judge.py / vlsi_transformer.py  *)
(*   SpecLabel    - the labeling loops (predict_circuit_type.py,           *)
(*                  inst2desc_json.py) with a kill at any moment           *)
(*   SpecLabelRun - the same loops left to run, under weak fairness        *)
(*   SpecCollect  - the checkpoints of the orchestrator main               *)
(*   SpecNetlist  - generate_netlist_json.py and generate_netlist_csv.py   *)
(*   SpecGraph    - generate_netlist_graph.py                              *)
(*   SpecRerun    - two runs of the synthesis stage on one design          *)
(*   SpecReview   - review_output (vlsi_judge.py)                          *)
(*   SpecRepair   - the JSON repairs of process_batch (vlsi_judge.py)      *)
(*   SpecCombine  - combine_csv.py                                         *)
(*   SpecEfforts  - the effort loops of the three flow programs            *)
(*   SpecModule   - create_module_graph (networkx_dataflow_graphgen.py)    *)
(*   SpecFlow     - the stages run in order on one base data directory     *)
(* The variables of the stages a specification does not run stay at their  *)
(* idle values.                                                            *)
(***************************************************************************)
EXTENDS Integers, Sequences, FiniteSets, TLC

VARIABLES
    \* ---- synthesize_rtl: one sweep over the effort combinations
    sw_id,          \* rtl_id argument
    sw_pc,          \* "loop" | "run" (tool in flight) | "done" | "off"
    sw_started,     \* effort combinations whose tool invocation was started, in order
    sw_outcomes,    \* outcome of every tool invocation that has returned, in order
    sw_log,         \* synthesis_log.txt: one entry per log() call
    sw_ret,         \* returned (rtl_id, code), or <<>> while running
    \* ---- synthesis orchestrator main
    corpus,         \* lines of the dataset file: "rtl" or "blank"
    rtl_itr,        \* list(rtl_itr_func(dataset_path)): the ids, in order
    next_task,      \* index in rtl_itr of the next task the pool hands out
    worker,         \* worker -> <<id>> it is processing, or Idle
    outq,           \* results returned by workers, not yet taken by main
    results,        \* main's list of (idx, code)
    tmp_log,        \* tmp_results_pkl_log.pkl: the dumped list, when present
    returned,       \* history: id -> code its process_rtl call returned
    syn_pc,         \* "collect" | "aggregate" | "done" | "off"
    synthesis_result, \* synthesis_result.pkl: <<success, timeout, fail>>, when present
    \* ---- anonymize_modules (generate_rtl_json.py and anonymize_netlist.py)
    an_src,         \* verilog_code argument, a sequence of tokens
    an_variant,     \* which of the two functions ran: "rtl" | "netlist" | "none"
    an_out,         \* returned anonymized_code
    an_map,         \* returned module_mapping: <<key, value>> pairs in insertion order
    an_pc,          \* "ready" | "done" | "off"
    \* ---- static/dataflow analyzer (pyverilog.py main)
    az_codes,       \* id -> text of synthesis/<id>/rtl.v
    az_idx,         \* loop variable idx of main
    syntax_success, syntax_fail, dataflow_success, dataflow_fail,
    az_files,       \* files under pyverilog/: <<id, name, kind>>
    az_pkl,         \* pyverilog_analysis.pkl: the four dumped lists, when present
    az_pc,          \* "loop" | "done" | "aborted" (uncaught exception) | "off"
    \* ---- RTL dataset assembler (generate_rtl_json.py main)
    asm_codes,      \* id -> text of synthesis/<id>/rtl.sv
    asm_synth,      \* synthesis_result.pkl: <<success, timeout, fail>>
    asm_dataflow,   \* dataflow_success of pyverilog_analysis.pkl
    asm_llama,      \* Llama3_70b_label.pkl as <<idx, label>> pairs
    asm_gpt,        \* GPT_4o_label.pkl as <<idx, label>> pairs
    asm_id,         \* loop variable rtl_id
    asm_records,    \* the records appended to rtl.json, in order
    asm_pc,         \* "loop" | "done" | "crashed" (uncaught KeyError) | "off"
    \* ---- batch loop of the judge evaluator and of the transformer
    jd_tool,        \* "judge" (vlsi_judge.py) | "transformer" (vlsi_transformer.py)
    jd_eligible,    \* key -> the field is present in every dataset read for it
    max_batch_size, \* args.max_batch_size
    jd_next,        \* position in json_contents[0].keys() of the next key
    prompts,        \* keys of the prompts collected for the next batch
    processed_items,
    batch_count,
    skipped_items,  \* keys put on the skipped list
    jd_output,      \* keys written to the output file
    jd_submitted,   \* history: key -> number of times it was sent to the model
    jd_pc,          \* "loop" | "retry" | "done" | "off"
    \* ---- labeling tools (predict_circuit_type.py main, inst2desc_json.py main)
    lb_tool,        \* "predict" | "inst2desc"
    lb_n,           \* number of items: len(success) or len(json_content)
    lb_phase,       \* loop of main: "llama" | "gpt" (predict), "desc" (inst2desc)
    lb_i,           \* position of the loop in the item list, 1-based
    retry_count,
    lb_results,     \* results (predict) or the descriptions set so far (inst2desc)
    lb_error,       \* error list of inst2desc
    lb_disk,        \* output file name -> file; data: the items whose result it holds
    lb_log,         \* history: <<item, outcome>> of every remote-API request
    lb_pc,          \* "request" | "open" | "dump" | "done" | "killed" | "off"
    \* ---- synthesis orchestrator main, over a corpus longer than a checkpoint period
    ck_n,           \* len(rtl_itr)
    ck_codes,       \* which result codes the workers return: a CodePatterns name
    ck_results,     \* main's list of (idx, code)
    ck_log,         \* tmp_results_pkl_log.pkl
    ck_saved,       \* history: number of results the last completed dump of the log wrote
    ck_result,      \* synthesis_result.pkl
    ck_pc,          \* "collect" | "open" | "dump" | "final_open" | "final_dump" |
                    \* "result_open" | "result_dump" | "remove" | "done" | "killed" | "off"
    \* ---- netlist dataset assembler and netlist CSV exporter
    nl_success,     \* success list of synthesis_result.pkl
    nl_fail,        \* netlist_graphgen_fail.pkl: the (rtl_id, effort) pairs in it
    nl_graphs,      \* (rtl_id, effort) pairs with a file netlist_data/graph/<id>_<effort>.pkl
    nl_verilog,     \* (rtl_id, effort) pairs copied to netlist_data/verilog
    nl_json,        \* netlist.json: <<key, record>> pairs in insertion order
    nl_csv,         \* netlist.csv: the rows below the header
    nl_error,       \* exception that ended the exporter, or "none"
    nl_pc,          \* "assemble" | "export" | "done" | "off"
    \* ---- netlist graph generator (generate_netlist_graph.py)
    gg_success,     \* success list of synthesis_result.pkl
    gg_netlists,    \* (rtl_id, effort) -> what syn.v holds: "missing", "unparsable",
                    \* or the tags of the nodes circuitgraph builds from it
    gg_graphs,      \* netlist/graph/<id>_<effort>.pkl: pair -> the dumped nodes
    gg_copies,      \* pairs whose syn_copy.v is left behind
    gg_truncated,   \* pairs whose graph file was opened 'wb' and holds no pickle
    gg_fail,        \* netlist_graphgen_fail.pkl
    gg_pc,          \* "run" | "done" | "off"
    \* ---- the synthesis stage run twice on one design (process_rtl, synthesize_rtl)
    rr_files,       \* the design's files under the data directory:
                    \*   log: lines of syn/synthesis_log.txt, as <<efforts, outcome>>
                    \*   cmd: combinations whose working directory holds cmd.tcl
                    \*   synv: combination -> run whose tool wrote syn.v and the reports, 0: none
                    \*   code: the design's code in synthesis_result.pkl, -1: no result object
    rr_first,       \* history: rr_files as the first run left them
    rr_outcomes,    \* history: per run, the outcomes of the tool invocations made
    rr_pc,          \* "first" | "second" | "done" | "off"
    \* ---- review pass of the judge (review_output)
    rv_field,       \* args.field
    threshold,      \* args.threshold
    rv_judged,      \* judged output file: <<key, verdict>> pairs in order
    rv_low,         \* low-similarity output file: the keys written to it
    rv_mismatch,    \* component-mismatch output file: the keys written to it
    rv_pc,          \* "review" | "done" | "off"
    \* ---- JSON repairs of the judge (process_batch, one output)
    rp_output,      \* output.outputs[0].text as tokens
    response_text,  \* response_text after strip/rstrip and the added brace
    rp_error,       \* the JSONDecodeError e of the first json.loads, or NoError
    rp_todo,        \* the try blocks of the chosen branch not yet entered
    rp_tried,       \* history: the repairs tried, in order
    rp_result,      \* the entry appended to completed_requests (NoResult = None)
    rp_pc,          \* "parse" | "repair" | "done" | "off"
    \* ---- combine_csv.py
    MGverilog,      \* MGVerilog.csv: the rows read, in file order
    RTLCoder,       \* RTLCoder.csv: the rows read, in file order
    cb_out,         \* BRIDGES.csv: absent, or the rows written
    cb_pc,          \* "combine" | "done" | "off"
    \* ---- the effort enumerations of the three programs
    ef_at,          \* program -> position of its product(...) iterator, or ProductEnd
    ef_out,         \* program -> the effort strings it has formed so far
    \* ---- networkx_dataflow_graphgen.py: create_module_graph
    signals,            \* the signals of the module, in binddict order
    mg_G,               \* signal -> its signal graph [nodes, edges]
    mg_next,            \* position in signals of the next signal to process
    op_id_counter,
    signal_id_counter,
    transformed_graphs,
    mg_composed,        \* history: module_graph after step 4, before the label merge
    module_graph,       \* the value returned: NoGraph (None) or a graph
    mg_pc,              \* "process" | "compose" | "merge" | "done" | "off"
    \* ---- the flow stages run in dependency order on one base data directory
    fl_success,         \* ids the synthesis orchestrator records as success
    fl_prompt,          \* the --prompt-type option, shared by the stages
    data_dir,           \* the paths under the base data directory
    fl_ran,             \* the stages that have run
    fl_missed           \* <<stage, path>>: what a stage looked for in vain


sweepVars == <<sw_id, sw_pc, sw_started, sw_outcomes, sw_log, sw_ret>>
synthVars == <<corpus, rtl_itr, next_task, worker, outq, results, tmp_log,
               returned, syn_pc, synthesis_result>>
anonVars == <<an_src, an_variant, an_out, an_map, an_pc>>
analyzeVars == <<az_codes, az_idx, syntax_success, syntax_fail, dataflow_success,
                 dataflow_fail, az_files, az_pkl, az_pc>>
assembleVars == <<asm_codes, asm_synth, asm_dataflow, asm_llama, asm_gpt, asm_id,
                  asm_records, asm_pc>>
judgeVars == <<jd_tool, jd_eligible, max_batch_size, jd_next, prompts,
               processed_items, batch_count, skipped_items, jd_output, jd_submitted,
               jd_pc>>
labelVars == <<lb_tool, lb_n, lb_phase, lb_i, retry_count, lb_results, lb_error,
               lb_disk, lb_log, lb_pc>>
collectVars == <<ck_n, ck_codes, ck_results, ck_log, ck_saved, ck_result, ck_pc>>
netlistVars == <<nl_success, nl_fail, nl_graphs, nl_verilog, nl_json, nl_csv,
                 nl_error, nl_pc>>
graphVars == <<gg_success, gg_netlists, gg_graphs, gg_copies, gg_truncated, gg_fail,
               gg_pc>>
rerunVars == <<rr_files, rr_first, rr_outcomes, rr_pc>>
reviewVars == <<rv_field, threshold, rv_judged, rv_low, rv_mismatch, rv_pc>>
repairVars == <<rp_output, response_text, rp_error, rp_todo, rp_tried, rp_result, rp_pc>>
combineVars == <<MGverilog, RTLCoder, cb_out, cb_pc>>
effortVars == <<ef_at, ef_out>>
moduleVars == <<signals, mg_G, mg_next, op_id_counter, signal_id_counter,
                transformed_graphs, mg_composed, module_graph, mg_pc>>
flowVars == <<fl_success, fl_prompt, data_dir, fl_ran, fl_missed>>
vars == <<sweepVars, synthVars, anonVars, analyzeVars,
          assembleVars, judgeVars, labelVars, collectVars,
          netlistVars, graphVars, rerunVars, reviewVars,
          repairVars, combineVars, effortVars, moduleVars,
          flowVars>>

\* what the actions of one stage leave alone: the other stages
notSweep == <<synthVars, anonVars, analyzeVars, assembleVars,
              judgeVars, labelVars, collectVars, netlistVars,
              graphVars, rerunVars, reviewVars, repairVars,
              combineVars, effortVars, moduleVars, flowVars>>
notSynth == <<sweepVars, anonVars, analyzeVars, assembleVars,
              judgeVars, labelVars, collectVars, netlistVars,
              graphVars, rerunVars, reviewVars, repairVars,
              combineVars, effortVars, moduleVars, flowVars>>
notAnon == <<sweepVars, synthVars, analyzeVars, assembleVars,
             judgeVars, labelVars, collectVars, netlistVars,
             graphVars, rerunVars, reviewVars, repairVars,
             combineVars, effortVars, moduleVars, flowVars>>
notAnalyze == <<sweepVars, synthVars, anonVars, assembleVars,
                judgeVars, labelVars, collectVars, netlistVars,
                graphVars, rerunVars, reviewVars, repairVars,
                combineVars, effortVars, moduleVars, flowVars>>
notAssemble == <<sweepVars, synthVars, anonVars, analyzeVars,
                 judgeVars, labelVars, collectVars, netlistVars,
                 graphVars, rerunVars, reviewVars, repairVars,
                 combineVars, effortVars, moduleVars, flowVars>>
notJudge == <<sweepVars, synthVars, anonVars, analyzeVars,
              assembleVars, labelVars, collectVars, netlistVars,
              graphVars, rerunVars, reviewVars, repairVars,
              combineVars, effortVars, moduleVars, flowVars>>
notLabel == <<sweepVars, synthVars, anonVars, analyzeVars,
              assembleVars, judgeVars, collectVars, netlistVars,
              graphVars, rerunVars, reviewVars, repairVars,
              combineVars, effortVars, moduleVars, flowVars>>
notCollect == <<sweepVars, synthVars, anonVars, analyzeVars,
                assembleVars, judgeVars, labelVars, netlistVars,
                graphVars, rerunVars, reviewVars, repairVars,
                combineVars, effortVars, moduleVars, flowVars>>
notNetlist == <<sweepVars, synthVars, anonVars, analyzeVars,
                assembleVars, judgeVars, labelVars, collectVars,
                graphVars, rerunVars, reviewVars, repairVars,
                combineVars, effortVars, moduleVars, flowVars>>
notGraph == <<sweepVars, synthVars, anonVars, analyzeVars,
              assembleVars, judgeVars, labelVars, collectVars,
              netlistVars, rerunVars, reviewVars, repairVars,
              combineVars, effortVars, moduleVars, flowVars>>
notRerun == <<sweepVars, synthVars, anonVars, analyzeVars,
              assembleVars, judgeVars, labelVars, collectVars,
              netlistVars, graphVars, reviewVars, repairVars,
              combineVars, effortVars, moduleVars, flowVars>>
notReview == <<sweepVars, synthVars, anonVars, analyzeVars,
               assembleVars, judgeVars, labelVars, collectVars,
               netlistVars, graphVars, rerunVars, repairVars,
               combineVars, effortVars, moduleVars, flowVars>>
notRepair == <<sweepVars, synthVars, anonVars, analyzeVars,
               assembleVars, judgeVars, labelVars, collectVars,
               netlistVars, graphVars, rerunVars, reviewVars,
               combineVars, effortVars, moduleVars, flowVars>>
notCombine == <<sweepVars, synthVars, anonVars, analyzeVars,
                assembleVars, judgeVars, labelVars, collectVars,
                netlistVars, graphVars, rerunVars, reviewVars,
                repairVars, effortVars, moduleVars, flowVars>>
notEfforts == <<sweepVars, synthVars, anonVars, analyzeVars,
                assembleVars, judgeVars, labelVars, collectVars,
                netlistVars, graphVars, rerunVars, reviewVars,
                repairVars, combineVars, moduleVars, flowVars>>
notModule == <<sweepVars, synthVars, anonVars, analyzeVars,
               assembleVars, judgeVars, labelVars, collectVars,
               netlistVars, graphVars, rerunVars, reviewVars,
               repairVars, combineVars, effortVars, flowVars>>
notFlow == <<sweepVars, synthVars, anonVars, analyzeVars,
             assembleVars, judgeVars, labelVars, collectVars,
             netlistVars, graphVars, rerunVars, reviewVars,
             repairVars, combineVars, effortVars, moduleVars>>

-----------------------------------------------------------------------------
(* Bounds of the model *)
NumLines == 2          \* lines of the corpus file
NumProcesses == 2      \* --num-processes
MaxTextLines == 3      \* lines of a Verilog text
NumData == 2           \* designs of the corpus (--num-data)
NumKeys == 3           \* keys of the first dataset
MaxBatchSize == 2      \* largest --max_batch_size
NumItems == 2          \* items a labeling tool is run on
NumResults == 101      \* longest corpus of the checkpointing model
MaxFail == 2           \* entries of the graph-generation failure list
MaxNodes == 2          \* nodes of a netlist graph
NumVerdicts == 2       \* items of the judged output file
MaxEdits == 1          \* tokens of a well-formed response damaged by the model
NumCsvRows == 2        \* rows of each input CSV
NumSignals == 2        \* signals of a module

(* Program constants *)
NumEfforts == 3        \* len(efforts)
CheckpointEvery == 100 \* (idx + 1) % 100
MaxRetries == 7        \* while retry_count <= 7
RetryWait == 10        \* time.sleep(10)
DefaultThreshold == 7  \* --threshold default
IdOffset == 1000000    \* combine_csv.py line 10

\* a file: absent, or present with its content
Absent == [exists |-> FALSE, data |-> <<>>]
File(content) == [exists |-> TRUE, data |-> content]
Idle == <<>>

RECURSIVE SeqToSet(_)
SeqToSet(s) == IF s = <<>> THEN {} ELSE {Head(s)} \cup SeqToSet(Tail(s))

NoDup(s) == \A i, j \in 1..Len(s) : i # j => s[i] # s[j]

-----------------------------------------------------------------------------
(* synthesize.py: synthesize_rtl *)

efforts == <<"low", "medium", "high">>

\* product(efforts, repeat=3): the k-th triple, k = 1..27, last axis fastest
EffortProduct ==
    [k \in 1..(NumEfforts * NumEfforts * NumEfforts) |->
        << efforts[((k - 1) \div (NumEfforts * NumEfforts)) + 1],
           efforts[(((k - 1) \div NumEfforts) % NumEfforts) + 1],
           efforts[((k - 1) % NumEfforts) + 1] >>]

NumCombinations == Len(EffortProduct)

\* what subprocess.run(..., check=True, timeout=...) can do
ToolOutcomes == {"ok", "timeout", "exit", "other"}

\* the except clauses that return: every outcome but normal completion
AbortsSweep_Mut(o) == o \notin {"ok", "timeout"}
AbortsSweep(o) == o # "ok"

\* the code returned by the except clause that catches outcome o
ResultCode_Mut(o) ==
    CASE o = "timeout" -> 2
      [] o = "exit"    -> 1
      [] o = "other"   -> 3
      [] OTHER         -> 0
ResultCode(o) ==
    CASE o = "timeout" -> 1
      [] o = "exit"    -> 2
      [] o = "other"   -> 3
      [] OTHER         -> 0

\* the whole sweep as a function of the tool's outcomes, outs[k] being what the
\* k-th invocation does if it is made
RECURSIVE SweepFrom(_, _)
SweepFrom(outs, k) ==
    IF k > NumCombinations THEN 0
    ELSE IF AbortsSweep(outs[k]) THEN ResultCode(outs[k])
    ELSE SweepFrom(outs, k + 1)

synthesize_rtl(rtl_id, outs) == <<rtl_id, SweepFrom(outs, 1)>>

SweepInit ==
    /\ sw_id \in 0..(NumLines - 1)
    /\ sw_pc = "loop"
    /\ sw_started = <<>>
    /\ sw_outcomes = <<>>
    /\ sw_log = <<>>
    /\ sw_ret = <<>>

SweepIdle ==
    /\ sw_id = 0
    /\ sw_pc = "off"
    /\ sw_started = <<>>
    /\ sw_outcomes = <<>>
    /\ sw_log = <<>>
    /\ sw_ret = <<>>

\* loop head and body up to subprocess.run: the next combination is started
SweepStart ==
    /\ UNCHANGED notSweep
    /\ sw_pc = "loop"
    /\ Len(sw_started) < NumCombinations
    /\ sw_started' = Append(sw_started, EffortProduct[Len(sw_started) + 1])
    /\ sw_pc' = "run"
    /\ UNCHANGED <<sw_id, sw_outcomes, sw_log, sw_ret>>

\* subprocess.run returns or raises; the try/except around it
SweepToolReturns(o) ==
    /\ UNCHANGED notSweep
    /\ sw_pc = "run"
    /\ sw_outcomes' = Append(sw_outcomes, o)
    /\ sw_log' = Append(sw_log, <<sw_started[Len(sw_started)], o>>)
    /\ IF AbortsSweep(o)
       THEN sw_ret' = <<sw_id, ResultCode(o)>> /\ sw_pc' = "done"
       ELSE sw_ret' = sw_ret /\ sw_pc' = "loop"
    /\ UNCHANGED <<sw_id, sw_started>>

\* the loop is exhausted: return (rtl_id, 0)
SweepSucceeds ==
    /\ UNCHANGED notSweep
    /\ sw_pc = "loop"
    /\ Len(sw_started) = NumCombinations
    /\ sw_ret' = <<sw_id, 0>>
    /\ sw_pc' = "done"
    /\ UNCHANGED <<sw_id, sw_started, sw_outcomes, sw_log>>

SweepNext ==
    \/ SweepStart
    \/ \E o \in ToolOutcomes : SweepToolReturns(o)
    \/ SweepSucceeds

-----------------------------------------------------------------------------
(* iterator_RTLCoder.py / iterator_MGVerilog.py *)

Corpora == [1..NumLines -> {"rtl", "blank"}]

\* enumerate(f) with blank lines skipped: the ids are the 0-based line numbers
RECURSIVE IterFrom(_, _)
IterFrom(c, i) ==
    IF i > Len(c) THEN <<>>
    ELSE IF c[i] = "blank" THEN IterFrom(c, i + 1)
    ELSE <<i - 1>> \o IterFrom(c, i + 1)

iterator_RTLCoder(c) == IterFrom(c, 1)

-----------------------------------------------------------------------------
(* synthesize.py: process_rtl and main *)

Workers == 1..NumProcesses

\* outcome vectors a worker's tool can show: normal up to f, then o, then o2
OutcomeVectors ==
    { [k \in 1..NumCombinations |->
          IF k < f THEN "ok" ELSE IF k = f THEN o ELSE o2] :
        f \in 1..(NumCombinations + 1), o \in ToolOutcomes, o2 \in ToolOutcomes }

\* lines 163-170: the three lists, in the order of results
SuccessIds(res) ==
    LET ok == SelectSeq(res, LAMBDA r : r[2] = 0)
    IN  [i \in 1..Len(ok) |-> ok[i][1]]
TimeoutIds(res) ==
    LET to == SelectSeq(res, LAMBDA r : r[2] # 0 /\ r[2] = 1)
    IN  [i \in 1..Len(to) |-> to[i][1]]
FailIds_Mut(res) ==
    LET fl == SelectSeq(res, LAMBDA r : r[2] # 0)
    IN  [i \in 1..Len(fl) |-> fl[i][1]]
FailIds(res) ==
    LET fl == SelectSeq(res, LAMBDA r : r[2] # 0 /\ r[2] # 1)
    IN  [i \in 1..Len(fl) |-> fl[i][1]]

SynthInit ==
    /\ corpus \in Corpora
    /\ rtl_itr = iterator_RTLCoder(corpus)
    /\ next_task = 1
    /\ worker = [w \in Workers |-> Idle]
    /\ outq = <<>>
    /\ results = <<>>
    /\ tmp_log = Absent
    /\ returned = <<>>
    /\ syn_pc = "collect"
    /\ synthesis_result = Absent

SynthIdle ==
    /\ corpus = <<>>
    /\ rtl_itr = <<>>
    /\ next_task = 1
    /\ worker = <<>>
    /\ outq = <<>>
    /\ results = <<>>
    /\ tmp_log = Absent
    /\ returned = <<>>
    /\ syn_pc = "off"
    /\ synthesis_result = Absent

\* the pool hands the next task of the generator to a free worker
PoolDispatch(w) ==
    /\ UNCHANGED notSynth
    /\ syn_pc = "collect"
    /\ worker[w] = Idle
    /\ next_task <= Len(rtl_itr)
    /\ worker' = [worker EXCEPT ![w] = <<rtl_itr[next_task]>>]
    /\ next_task' = next_task + 1
    /\ UNCHANGED <<corpus, rtl_itr, outq, results, tmp_log, returned, syn_pc,
                   synthesis_result>>

\* process_rtl in worker w runs to its return
ProcessRtl(w, outs) ==
    /\ UNCHANGED notSynth
    /\ syn_pc = "collect"
    /\ worker[w] # Idle
    /\ LET r == synthesize_rtl(worker[w][1], outs)
       IN  /\ outq' = Append(outq, r)
           /\ returned' = Append(returned, r)
    /\ worker' = [worker EXCEPT ![w] = Idle]
    /\ UNCHANGED <<corpus, rtl_itr, next_task, results, tmp_log, syn_pc,
                   synthesis_result>>

\* one iteration of the for loop over result_itr (lines 153-158)
CollectResult ==
    /\ UNCHANGED notSynth
    /\ syn_pc = "collect"
    /\ outq # <<>>
    /\ results' = Append(results, Head(outq))
    /\ outq' = Tail(outq)
    /\ tmp_log' = IF Len(results') % CheckpointEvery = 0 THEN File(results') ELSE tmp_log
    /\ UNCHANGED <<corpus, rtl_itr, next_task, worker, returned, syn_pc,
                   synthesis_result>>

\* result_itr is exhausted: the last dump inside the with block (lines 159-161)
PoolDone ==
    /\ UNCHANGED notSynth
    /\ syn_pc = "collect"
    /\ Len(results) = Len(rtl_itr)
    /\ tmp_log' = File(results)
    /\ syn_pc' = "aggregate"
    /\ UNCHANGED <<corpus, rtl_itr, next_task, worker, outq, results, returned,
                   synthesis_result>>

\* lines 163-181: the lists are built and dumped, the temporary log removed
Aggregate ==
    /\ UNCHANGED notSynth
    /\ syn_pc = "aggregate"
    /\ synthesis_result' =
          File(<<SuccessIds(results), TimeoutIds(results), FailIds(results)>>)
    /\ tmp_log' = Absent
    /\ syn_pc' = "done"
    /\ UNCHANGED <<corpus, rtl_itr, next_task, worker, outq, results, returned>>

SynthNext ==
    \/ \E w \in Workers : PoolDispatch(w)
    \/ \E w \in Workers, outs \in OutcomeVectors : ProcessRtl(w, outs)
    \/ CollectResult
    \/ PoolDone
    \/ Aggregate

-----------------------------------------------------------------------------
(* Verilog text.  A text is a sequence of tokens: a word (a maximal run of  *)
(* \w characters), "sp" (a run of blanks), "nl" (a newline), "#(p)" (a      *)
(* parameter block #( ... )), "(" or ";".  No two words are adjacent.      *)

ModuleNames == {"foo", "bar", "anonymized_module_1"}
\* other identifiers; foo_x contains a module name without being one
OtherWords == {"foo_x", "w"}
Words == ModuleNames \cup OtherWords \cup {"module", "endmodule", "u"}

IsWord(t) == t \in Words \/ t \in {"anonymized_module_0", "anonymized_module_2",
                                   "anonymized_module_3", "anonymized_module_4"}
IsSpace(t) == t \in {"sp", "nl"}

\* the header forms of a declaration of module n, and the other lines
DeclLines(n) ==
    { <<"module", "sp", n, "(", "nl">>,
      <<"module", "sp", n, "sp", "(", "nl">>,
      <<"module", "sp", n, ";", "nl">>,
      <<"module", "sp", n, "sp", "#(p)", "sp", "(", "nl">> }
UseLines == { <<x, "sp", "u", "(", "nl">> : x \in ModuleNames \cup {"foo_x"} }
TextLines == UseLines \cup UNION { DeclLines(n) : n \in ModuleNames }

RECURSIVE Flatten(_)
Flatten(ls) == IF ls = <<>> THEN <<>> ELSE Head(ls) \o Flatten(Tail(ls))

Texts == { Flatten(ls) : ls \in UNION { [1..n -> TextLines] : n \in 1..MaxTextLines } }

-----------------------------------------------------------------------------
(* generate_rtl_json.py / anonymize_netlist.py: anonymize_modules *)

AnonName(n) == "anonymized_module_" \o ToString(n)

\* \s* from position j: the first position at or after j that holds no space
RECURSIVE SkipSpace(_, _)
SkipSpace(s, j) ==
    IF j <= Len(s) /\ IsSpace(s[j]) THEN SkipSpace(s, j + 1) ELSE j

NoMatch == [end |-> 0]

\* r'(^module\s+)(\w+)(?:\s*#\s*\(.*?\))?\s*(\(|;)' with MULTILINE | DOTALL,
\* tried at position i: the groups of the match, or NoMatch
MatchRtl(s, i) ==
    LET j  == SkipSpace(s, i + 1)
        k  == SkipSpace(s, j + 1)
        k2 == IF k <= Len(s) /\ s[k] = "#(p)" THEN SkipSpace(s, k + 1) ELSE k
    IN  IF /\ (i = 1 \/ s[i - 1] = "nl")
           /\ s[i] = "module"
           /\ j > i + 1
           /\ j <= Len(s) /\ IsWord(s[j])
           /\ k2 <= Len(s) /\ s[k2] \in {"(", ";"}
        THEN [end |-> k2, g1 |-> SubSeq(s, i, j - 1), g2 |-> s[j], g3 |-> <<s[k2]>>]
        ELSE NoMatch

\* r'(\bmodule\s+)(\w+)(\s*\()' with MULTILINE
MatchNetlist(s, i) ==
    LET j == SkipSpace(s, i + 1)
        k == SkipSpace(s, j + 1)
    IN  IF /\ s[i] = "module"
           /\ j > i + 1
           /\ j <= Len(s) /\ IsWord(s[j])
           /\ k <= Len(s) /\ s[k] = "("
        THEN [end |-> k, g1 |-> SubSeq(s, i, j - 1), g2 |-> s[j], g3 |-> SubSeq(s, j + 1, k)]
        ELSE NoMatch

Match(variant, s, i) == IF variant = "rtl" THEN MatchRtl(s, i) ELSE MatchNetlist(s, i)

\* module_mapping[key] = value on a dict kept as pairs in insertion order
DictSet(d, key, value) ==
    IF \E i \in 1..Len(d) : d[i][1] = key
    THEN [i \in 1..Len(d) |-> IF d[i][1] = key THEN <<key, value>> ELSE d[i]]
    ELSE Append(d, <<key, value>>)

\* replace_module_name: the dict entry the match adds
MapEntry(variant, original, anonymized) ==
    IF variant = "rtl" THEN <<anonymized, original>> ELSE <<original, anonymized>>

\* re.sub(pattern, replace_module_name, verilog_code): left to right from
\* position i, counter matches made so far; the new text and the dict
RECURSIVE SubDecls(_, _, _, _, _)
SubDecls(variant, s, i, counter, d) ==
    IF i > Len(s) THEN [code |-> <<>>, map |-> d]
    ELSE LET m == Match(variant, s, i)
         IN  IF m.end = 0
             THEN LET r == SubDecls(variant, s, i + 1, counter, d)
                  IN  [code |-> <<s[i]>> \o r.code, map |-> r.map]
             ELSE LET e == MapEntry(variant, m.g2, AnonName(counter))
                      r == SubDecls(variant, s, m.end + 1, counter + 1,
                                    DictSet(d, e[1], e[2]))
                  IN  [code |-> m.g1 \o <<AnonName(counter)>> \o m.g3 \o r.code,
                       map |-> r.map]

\* re.sub(rf'\b{name}\b', repl, code): every whole-word occurrence
ReplaceWord(s, name, repl) == [i \in 1..Len(s) |-> IF s[i] = name THEN repl ELSE s[i]]

\* for original_name, anonymized_name in module_mapping.items(): ...
RECURSIVE SubNames(_, _, _)
SubNames(s, d, i) ==
    IF i > Len(d) THEN s
    ELSE SubNames(ReplaceWord(s, d[i][1], d[i][2]), d, i + 1)

anonymize_modules(variant, verilog_code) ==
    LET r == SubDecls(variant, verilog_code, 1, 0, <<>>)
    IN  [code |-> SubNames(r.code, r.map, 1), map |-> r.map]

AnonInit ==
    /\ an_src \in Texts
    /\ an_variant = "none"
    /\ an_out = <<>>
    /\ an_map = <<>>
    /\ an_pc = "ready"

AnonIdle ==
    /\ an_src = <<>>
    /\ an_variant = "none"
    /\ an_out = <<>>
    /\ an_map = <<>>
    /\ an_pc = "off"

Anonymize(variant) ==
    /\ UNCHANGED notAnon
    /\ an_pc = "ready"
    /\ LET r == anonymize_modules(variant, an_src)
       IN  an_out' = r.code /\ an_map' = r.map
    /\ an_variant' = variant
    /\ an_pc' = "done"
    /\ UNCHANGED an_src

\* generate_rtl_json.py: anonymize_modules(verilog)
AnonymizeRtl == Anonymize("rtl")

\* anonymize_netlist.py: anonymize_modules(content)
AnonymizeNetlist == Anonymize("netlist")

AnonNext ==
    \/ AnonymizeRtl
    \/ AnonymizeNetlist

-----------------------------------------------------------------------------
(* The designs of a corpus *)

NoModuleText == <<"foo_x", "sp", "u", "(", "nl">>
OneModuleText == <<"module", "sp", "foo", "sp", "(", "nl">>
TwoModuleText == <<"module", "sp", "foo", "(", "nl",
                   "module", "sp", "bar", ";", "nl",
                   "foo", "sp", "u", "(", "nl">>
DesignTexts == {NoModuleText, OneModuleText, TwoModuleText}

-----------------------------------------------------------------------------
(* pyverilog.py *)

\* outcomes of subprocess.run(capture_output=True, check=True, timeout=...):
\* output written, TimeoutExpired, CalledProcessError, exit 0 with no output
TextToolOutcomes == {"ok", "timeout", "exit", "empty"}
\* the graph generator's stdout is unpickled: it can also be undecodable, or
\* ("none") the pickle of None that networkx_dataflow_graphgen.py writes at
\* line 108 when create_module_graph returned None
GraphToolOutcomes == {"ok", "none", "timeout", "exit", "empty", "garbage"}

\* analyze_syntax / analyze_dataflow: the status returned
TextToolStatus(o) ==
    CASE o = "ok"      -> 0
      [] o = "timeout" -> 1
      [] o = "exit"    -> 2
      [] OTHER         -> 3

\* generate_dataflow_graph: pkl.loads raises EOFError on empty output and
\* UnpicklingError on garbage; neither is a SubprocessError, so neither is caught
GraphRaises(o) == o \in {"empty", "garbage"}
GraphStatus(o) ==
    CASE o = "ok"      -> 0
      [] o = "none"    -> 0
      [] o = "timeout" -> 1
      [] OTHER         -> 2

\* re.findall(r'(?:^module\s+)(\w+)(?:\s*#\s*\(.*?\))?\s*(?:\(|;)', code, re.MULTILINE)
RECURSIVE FindModules(_, _)
FindModules(s, i) ==
    IF i > Len(s) THEN <<>>
    ELSE LET m == MatchRtl(s, i)
         IN  IF m.end = 0 THEN FindModules(s, i + 1)
             ELSE <<m.g2>> \o FindModules(s, m.end + 1)

\* <module>.pkl of design idx: "pkl" holding a graph, "pkl_none" holding the
\* pickle of None, "pkl_empty" created and never written
GraphFiles(idx, module) ==
    {<<idx, module, "pkl">>, <<idx, module, "pkl_none">>, <<idx, module, "pkl_empty">>}
\* line 79: pkl.dump(pkl.loads(result.stdout), f)
GraphFile(idx, module, o) == <<idx, module, IF o = "none" THEN "pkl_none" ELSE "pkl">>

\* the for loop of analyze_rtl from the k-th module on.  outs[k] is what the
\* two tools do for the k-th module: <<dataflow analyzer, graph generator>>.
\* acc holds dataflow_success, dataflow_fail and the files of the directory.
RECURSIVE AnalyzeModules(_, _, _, _, _)
AnalyzeModules(idx, modules, outs, k, acc) ==
    IF k > Len(modules) THEN acc
    ELSE
      LET module == modules[k]
          txt == <<idx, module, "txt">>
          pkl == <<idx, module, "pkl">>
      IN  IF TextToolStatus(outs[k][1]) # 0
          THEN AnalyzeModules(idx, modules, outs, k + 1,
                   [acc EXCEPT !.fail = Append(@, <<idx, module>>)])
          ELSE IF GraphRaises(outs[k][2])
          THEN \* open(.., 'wb') has created the file when pkl.loads raises
               [acc EXCEPT !.raised = TRUE,
                           !.files = (@ \cup {txt, <<idx, module, "pkl_empty">>})
                                         \ {pkl, <<idx, module, "pkl_none">>}]
          ELSE IF GraphStatus(outs[k][2]) # 0
          THEN AnalyzeModules(idx, modules, outs, k + 1,
                   [acc EXCEPT !.fail = Append(@, <<idx, module>>),
                               !.files = @ \ {txt}])
          ELSE AnalyzeModules(idx, modules, outs, k + 1,
                   [acc EXCEPT !.success = Append(@, <<idx, module>>),
                               !.files = (@ \cup {txt, GraphFile(idx, module, outs[k][2])})
                                             \ (GraphFiles(idx, module)
                                                   \ {GraphFile(idx, module, outs[k][2])})])

\* analyze_rtl: [raised, syntax, success, fail, files]
analyze_rtl(idx, code, syntaxOut, outs, files) ==
    LET f1 == IF TextToolStatus(syntaxOut) = 0
              THEN files \cup {<<idx, "syntax", "txt">>} ELSE files
        r == AnalyzeModules(idx, FindModules(code, 1), outs, 1,
                 [raised |-> FALSE, success |-> <<>>, fail |-> <<>>, files |-> f1])
    IN  [raised |-> r.raised, syntax |-> (TextToolStatus(syntaxOut) = 0),
         success |-> r.success, fail |-> r.fail, files |-> r.files]

\* the most module declarations a design text has
MaxModules == Len(FindModules(TwoModuleText, 1))

\* per module what the two tools do; the graph generator runs only after the
\* dataflow analyzer has succeeded
ModuleOutcomes ==
    [1..MaxModules ->
        { <<"ok", g>> : g \in GraphToolOutcomes } \cup
        { <<t, "ok">> : t \in TextToolOutcomes \ {"ok"} }]

AnalyzeInit ==
    /\ az_codes \in [0..(NumData - 1) -> DesignTexts]
    /\ az_idx = 0
    /\ syntax_success = <<>>
    /\ syntax_fail = <<>>
    /\ dataflow_success = <<>>
    /\ dataflow_fail = <<>>
    /\ az_files = {}
    /\ az_pkl = Absent
    /\ az_pc = "loop"

AnalyzeIdle ==
    /\ az_codes = <<>>
    /\ az_idx = 0
    /\ syntax_success = <<>>
    /\ syntax_fail = <<>>
    /\ dataflow_success = <<>>
    /\ dataflow_fail = <<>>
    /\ az_files = {}
    /\ az_pkl = Absent
    /\ az_pc = "off"

\* one iteration of the for loop of main (lines 125-134)
AnalyzeStep(syntaxOut, outs) ==
    /\ UNCHANGED notAnalyze
    /\ az_pc = "loop"
    /\ az_idx < NumData
    /\ LET r == analyze_rtl(az_idx, az_codes[az_idx], syntaxOut, outs, az_files)
       IN  /\ az_files' = r.files
           /\ IF r.raised
              THEN /\ az_pc' = "aborted"
                   /\ UNCHANGED <<az_idx, syntax_success, syntax_fail,
                                  dataflow_success, dataflow_fail, az_pkl>>
              ELSE /\ syntax_success' = IF r.syntax THEN Append(syntax_success, az_idx)
                                        ELSE syntax_success
                   /\ syntax_fail' = IF r.syntax THEN syntax_fail
                                     ELSE Append(syntax_fail, az_idx)
                   /\ dataflow_success' = dataflow_success \o r.success
                   /\ dataflow_fail' = dataflow_fail \o r.fail
                   /\ az_pkl' = File(<<syntax_success', syntax_fail', dataflow_success',
                                       dataflow_fail'>>)
                   /\ az_idx' = az_idx + 1
                   /\ az_pc' = "loop"
    /\ UNCHANGED az_codes

\* range(num_data) is exhausted
AnalyzeDone ==
    /\ UNCHANGED notAnalyze
    /\ az_pc = "loop"
    /\ az_idx = NumData
    /\ az_pc' = "done"
    /\ UNCHANGED <<az_codes, az_idx, syntax_success, syntax_fail, dataflow_success,
                   dataflow_fail, az_files, az_pkl>>

AnalyzeNext ==
    \/ \E so \in TextToolOutcomes, outs \in ModuleOutcomes : AnalyzeStep(so, outs)
    \/ AnalyzeDone

-----------------------------------------------------------------------------
(* predict_circuit_type.py: the two label files *)

Labels == {"Arithmetic Units", "Data Path Units"}
Missing == "missing"

\* Llama3_70b_label.pkl: one entry per id of success (lines 127-132)
LlamaResults(success, llamaOf) == [i \in 1..Len(success) |-> <<success[i], llamaOf[success[i]]>>]

\* GPT_4o_label.pkl: an id whose 8 requests all raised has no entry (lines 134-150)
GptResults(success, gptOf) ==
    LET got == SelectSeq(success, LAMBDA id : gptOf[id] # Missing)
    IN  [i \in 1..Len(got) |-> <<got[i], gptOf[got[i]]>>]

-----------------------------------------------------------------------------
(* generate_rtl_json.py: main *)

\* a complete run of the analyzer over the designs from id idx on:
\* its dataflow_success
RECURSIVE AnalyzerRun(_, _, _)
AnalyzerRun(codes, outs, idx) ==
    IF idx \notin DOMAIN codes THEN <<>>
    ELSE analyze_rtl(idx, codes[idx], "ok", outs[idx], {}).success
            \o AnalyzerRun(codes, outs, idx + 1)

\* a dict built from pairs: d[key], or Missing for a key it does not hold
DictHas(d, key) == \E i \in 1..Len(d) : d[i][1] = key
DictGet(d, key) == d[CHOOSE i \in 1..Len(d) : d[i][1] = key /\
                        \A j \in (i + 1)..Len(d) : d[j][1] # key][2]

DictKeys(d) == [i \in 1..Len(d) |-> d[i][1]]

InList(x, l) == x \in SeqToSet(l)

\* line 116: module_keys are the keys of module_mapping
DataflowStatus(rtl_id, module_mapping, dfSuccess) ==
    LET module_keys == DictKeys(module_mapping)
    IN  /\ module_keys # <<>>
        /\ \A k \in 1..Len(module_keys) : InList(<<rtl_id, module_keys[k]>>, dfSuccess)

\* lines 118-120 raise KeyError when a label dict is indexed by an id it lacks
LabelsRaise(rtl_id, success, gpt, llama) ==
    /\ InList(rtl_id, success)
    /\ ~DictHas(gpt, rtl_id) \/ ~DictHas(llama, rtl_id)

ConsistentLabel(rtl_id, success, gpt, llama) ==
    IF InList(rtl_id, success) /\ DictGet(gpt, rtl_id) = DictGet(llama, rtl_id)
    THEN DictGet(gpt, rtl_id) ELSE ""

GatedLabel(rtl_id, success, d) ==
    IF InList(rtl_id, success) THEN DictGet(d, rtl_id) ELSE ""

SynthCodes == {0, 1, 2}

AssembleInit ==
    /\ asm_codes \in [0..(NumData - 1) -> DesignTexts]
    /\ \E code \in [0..(NumData - 1) -> SynthCodes] :
          LET res == [i \in 1..NumData |-> <<i - 1, code[i - 1]>>]
          IN  asm_synth = <<SuccessIds(res), TimeoutIds(res), FailIds(res)>>
    /\ \/ asm_dataflow = Absent
       \/ \E outs \in [0..(NumData - 1) ->
                          [1..MaxModules -> {<<"ok", "ok">>, <<"ok", "timeout">>}]] :
             asm_dataflow = File(AnalyzerRun(asm_codes, outs, 0))
    /\ \/ asm_llama = Absent /\ asm_gpt = Absent
       \/ /\ asm_synth[1] # <<>>
          /\ \E llamaOf \in [SeqToSet(asm_synth[1]) -> Labels],
                gptOf \in [SeqToSet(asm_synth[1]) -> Labels \cup {Missing}] :
                /\ asm_llama = File(LlamaResults(asm_synth[1], llamaOf))
                /\ asm_gpt = File(GptResults(asm_synth[1], gptOf))
    /\ asm_id = 0
    /\ asm_records = <<>>
    /\ asm_pc = "loop"

AssembleIdle ==
    /\ asm_codes = <<>>
    /\ asm_synth = <<>>
    /\ asm_dataflow = Absent
    /\ asm_llama = Absent
    /\ asm_gpt = Absent
    /\ asm_id = 0
    /\ asm_records = <<>>
    /\ asm_pc = "off"

NumAssembled == Len(asm_synth[1]) + Len(asm_synth[2]) + Len(asm_synth[3])

\* one iteration of the loop over rtl_id (lines 90-127)
AssembleRecord ==
    /\ UNCHANGED notAssemble
    /\ asm_pc = "loop"
    /\ asm_id < NumAssembled
    /\ LET success == asm_synth[1]
           type_prediction == asm_llama.exists /\ asm_gpt.exists
           a == anonymize_modules("rtl", asm_codes[asm_id])
           base == [rtl_id |-> asm_id,
                    verilog |-> asm_codes[asm_id],
                    anonymized_verilog |-> a.code,
                    mapping |-> a.map,
                    synthesis_status |-> InList(asm_id, success)]
           df == IF asm_dataflow.exists
                 THEN [dataflow_status |->
                          DataflowStatus(asm_id, a.map, asm_dataflow.data)]
                 ELSE <<>>
       IN  IF type_prediction /\ LabelsRaise(asm_id, success, asm_gpt.data, asm_llama.data)
           THEN /\ asm_pc' = "crashed"
                /\ UNCHANGED <<asm_id, asm_records>>
           ELSE /\ asm_records' = Append(asm_records,
                     IF type_prediction
                     THEN base @@ df @@
                          [consistent_label |->
                               ConsistentLabel(asm_id, success, asm_gpt.data,
                                               asm_llama.data),
                           GPT_4o_label |-> GatedLabel(asm_id, success, asm_gpt.data),
                           Llama3_70b_label |->
                               GatedLabel(asm_id, success, asm_llama.data)]
                     ELSE base @@ df)
                /\ asm_id' = asm_id + 1
                /\ asm_pc' = "loop"
    /\ UNCHANGED <<asm_codes, asm_synth, asm_dataflow, asm_llama, asm_gpt>>

\* the loop is exhausted: the closing brace is written (lines 129-130)
AssembleDone ==
    /\ UNCHANGED notAssemble
    /\ asm_pc = "loop"
    /\ asm_id = NumAssembled
    /\ asm_pc' = "done"
    /\ UNCHANGED <<asm_codes, asm_synth, asm_dataflow, asm_llama, asm_gpt, asm_id,
                   asm_records>>

AssembleNext ==
    \/ AssembleRecord
    \/ AssembleDone

-----------------------------------------------------------------------------
(* vlsi_judge.py / vlsi_transformer.py: the batch loop of main *)

Keys == 1..NumKeys
total_items == NumKeys

\* what llm.chat does with a batch: raise, or return one output per prompt
BatchOutcomes == {"raises", "returns"}

\* send_request: the outputs, one per prompt, or [] when llm.chat raised
send_request(batch, outcome) == IF outcome = "raises" THEN <<>> ELSE batch

\* vlsi_judge.py process_batch: one entry per output, None (FALSE here) for an
\* output no repair could parse; parsed[k] tells whether output k parses
JudgeProcessBatch(batch, outcome, parsed) ==
    LET outputs == send_request(batch, outcome)
    IN  [k \in 1..Len(outputs) |-> parsed[k]]

\* zip(prompts, completed_requests): the pairs up to the shorter length
ZipLen(a, b) == IF Len(a) < Len(b) THEN Len(a) ELSE Len(b)

\* the keys of a batch whose response is not None / is None (lines 395-401)
WrittenOf(batch, completed) ==
    { batch[k] : k \in { j \in 1..ZipLen(batch, completed) : completed[j] } }
SkippedOf(batch, completed) ==
    LET idx == { j \in 1..ZipLen(batch, completed) : ~completed[j] }
    IN  SelectSeq(batch, LAMBDA key : \E j \in idx : batch[j] = key)

\* vlsi_transformer.py process_batch + join_requests: every output returned
\* is written under its request id
TransformerWritten(batch, outcome) ==
    LET outputs == send_request(batch, outcome)
    IN  { batch[k] : k \in 1..ZipLen(outputs, batch) }

\* the condition that sends the collected prompts (judge line 391, transformer 294)
BatchIsDue(ps, processed) == Len(ps) = max_batch_size \/ processed = total_items

CountSubmit(count, batch) ==
    [k \in Keys |-> IF k \in SeqToSet(batch) THEN count[k] + 1 ELSE count[k]]

ParseVectors == [1..MaxBatchSize -> BOOLEAN]
RetryParseVectors == [1..NumKeys -> BOOLEAN]

JudgeInit ==
    /\ jd_tool \in {"judge", "transformer"}
    /\ jd_eligible \in [Keys -> BOOLEAN]
    /\ max_batch_size \in 1..MaxBatchSize
    /\ jd_next = 1
    /\ prompts = <<>>
    /\ processed_items = 0
    /\ batch_count = 0
    /\ skipped_items = <<>>
    /\ jd_output = {}
    /\ jd_submitted = [k \in Keys |-> 0]
    /\ jd_pc = "loop"

JudgeIdle ==
    /\ jd_tool = "none"
    /\ jd_eligible = <<>>
    /\ max_batch_size = 1
    /\ jd_next = 1
    /\ prompts = <<>>
    /\ processed_items = 0
    /\ batch_count = 0
    /\ skipped_items = <<>>
    /\ jd_output = {}
    /\ jd_submitted = <<>>
    /\ jd_pc = "off"

\* one iteration of the for loop over the keys (judge 380-404, transformer 283-303)
BatchLoopStep(outcome, parsed) ==
    /\ UNCHANGED notJudge
    /\ jd_pc = "loop"
    /\ jd_next <= NumKeys
    /\ LET i == jd_next
           ps == IF jd_eligible[i] THEN Append(prompts, i) ELSE prompts
           processed == IF jd_eligible[i] THEN processed_items + 1 ELSE processed_items
           completed == JudgeProcessBatch(ps, outcome, parsed)
       IN  /\ processed_items' = processed
           /\ IF BatchIsDue(ps, processed)
              THEN /\ batch_count' = batch_count + 1
                   /\ jd_submitted' = CountSubmit(jd_submitted, ps)
                   /\ IF jd_tool = "judge"
                      THEN /\ jd_output' = jd_output \cup WrittenOf(ps, completed)
                           /\ skipped_items' = skipped_items \o SkippedOf(ps, completed)
                      ELSE /\ jd_output' = jd_output \cup TransformerWritten(ps, outcome)
                           /\ skipped_items' = skipped_items
                   /\ prompts' = <<>>
              ELSE /\ prompts' = ps
                   /\ UNCHANGED <<batch_count, jd_submitted, jd_output, skipped_items>>
    /\ jd_next' = jd_next + 1
    /\ UNCHANGED <<jd_tool, jd_eligible, max_batch_size, jd_pc>>

\* the keys are exhausted; the transformer is finished, the judge goes on to
\* its retry pass
BatchLoopEnds ==
    /\ UNCHANGED notJudge
    /\ jd_pc = "loop"
    /\ jd_next = NumKeys + 1
    /\ jd_pc' = IF jd_tool = "judge" THEN "retry" ELSE "done"
    /\ UNCHANGED <<jd_tool, jd_eligible, max_batch_size, jd_next, prompts,
                   processed_items, batch_count, skipped_items, jd_output,
                   jd_submitted>>

\* vlsi_judge.py lines 406-418: the skipped items are sent once more
JudgeRetry(outcome, parsed) ==
    /\ UNCHANGED notJudge
    /\ jd_pc = "retry"
    /\ IF skipped_items # <<>>
       THEN LET completed == JudgeProcessBatch(skipped_items, outcome, parsed)
            IN  /\ jd_submitted' = CountSubmit(jd_submitted, skipped_items)
                /\ jd_output' = jd_output \cup WrittenOf(skipped_items, completed)
       ELSE UNCHANGED <<jd_submitted, jd_output>>
    /\ jd_pc' = "done"
    /\ UNCHANGED <<jd_tool, jd_eligible, max_batch_size, jd_next, prompts,
                   processed_items, batch_count, skipped_items>>

JudgeNext ==
    \/ \E outcome \in BatchOutcomes, parsed \in ParseVectors :
          BatchLoopStep(outcome, parsed)
    \/ BatchLoopEnds
    \/ \E outcome \in BatchOutcomes, parsed \in RetryParseVectors :
          JudgeRetry(outcome, parsed)

-----------------------------------------------------------------------------
(* predict_circuit_type.py: main (lines 127-150), inst2desc_json.py: main    *)
(* (lines 32-57).  A file opened with mode 'w'/'wb' is empty from the open   *)
(* until the dump has written it.                                           *)

LabelTools == {"predict", "inst2desc"}
RequestOutcomes == {"ok", "raise"}
LabelFiles == {"Llama3_70b_label.pkl", "GPT_4o_label.pkl", "json_path"}

\* the file the current loop writes
LabelFile(tool, phase) ==
    IF tool = "inst2desc" THEN "json_path"
    ELSE IF phase = "llama" THEN "Llama3_70b_label.pkl" ELSE "GPT_4o_label.pkl"

\* while retry_count <= 7
KeepsTrying_Mut(rc) == rc <= MaxRetries + 1
KeepsTrying(rc) == rc <= MaxRetries

LabelInit ==
    /\ lb_tool \in LabelTools
    /\ lb_n \in 0..NumItems
    /\ lb_phase = IF lb_tool = "predict" THEN "llama" ELSE "desc"
    /\ lb_i = 1
    /\ retry_count = 0
    /\ lb_results = <<>>
    /\ lb_error = <<>>
    /\ lb_disk = [f \in LabelFiles |->
                    IF f = "json_path" /\ lb_tool = "inst2desc" THEN File(<<>>) ELSE Absent]
    /\ lb_log = <<>>
    /\ lb_pc = IF lb_n > 0 THEN "request"
               ELSE IF lb_tool = "predict" THEN "done" ELSE "open"

LabelIdle ==
    /\ lb_tool = "none"
    /\ lb_n = 0
    /\ lb_phase = "none"
    /\ lb_i = 1
    /\ retry_count = 0
    /\ lb_results = <<>>
    /\ lb_error = <<>>
    /\ lb_disk = <<>>
    /\ lb_log = <<>>
    /\ lb_pc = "off"

\* predict_circuit_type.py lines 129-130: predict_function_category_Llama catches
\* every exception itself, so a result is appended for every item
LlamaRequest ==
    /\ UNCHANGED notLabel
    /\ lb_pc = "request" /\ lb_tool = "predict" /\ lb_phase = "llama"
    /\ lb_results' = Append(lb_results, lb_i)
    /\ lb_pc' = "open"
    /\ UNCHANGED <<lb_tool, lb_n, lb_phase, lb_i, retry_count, lb_error, lb_disk, lb_log>>

\* predict_circuit_type.py lines 138-148: one pass of the while loop, and the
\* test after the loop when the loop is left
GptRequest(o) ==
    /\ UNCHANGED notLabel
    /\ lb_pc = "request" /\ lb_tool = "predict" /\ lb_phase = "gpt"
    /\ KeepsTrying(retry_count)
    /\ IF o = "ok"
       THEN /\ lb_results' = Append(lb_results, lb_i)
            /\ lb_log' = Append(lb_log, <<lb_i, o, 0>>)
            /\ retry_count' = retry_count
            /\ lb_pc' = "open"
       ELSE /\ lb_results' = lb_results
            /\ lb_log' = Append(lb_log, <<lb_i, o, RetryWait>>)
            /\ retry_count' = retry_count + 1
            /\ lb_pc' = IF KeepsTrying(retry_count + 1) THEN "request" ELSE "open"
    /\ UNCHANGED <<lb_tool, lb_n, lb_phase, lb_i, lb_error, lb_disk>>

\* inst2desc_json.py lines 33-54: one iteration of the for loop
DescRequest(o) ==
    /\ UNCHANGED notLabel
    /\ lb_pc = "request" /\ lb_tool = "inst2desc"
    /\ IF o = "ok"
       THEN lb_results' = Append(lb_results, lb_i) /\ lb_error' = lb_error
       ELSE lb_error' = Append(lb_error, lb_i) /\ lb_results' = lb_results
    /\ lb_i' = lb_i + 1
    /\ lb_pc' = IF lb_i < lb_n THEN "request" ELSE "open"
    /\ UNCHANGED <<lb_tool, lb_n, lb_phase, retry_count, lb_disk, lb_log>>

\* open(..., "wb") / open(json_path, "w"): the file is created or truncated
LabelOpen ==
    /\ UNCHANGED notLabel
    /\ lb_pc = "open"
    /\ lb_disk' = [lb_disk EXCEPT ![LabelFile(lb_tool, lb_phase)] = File(<<>>)]
    /\ lb_pc' = "dump"
    /\ UNCHANGED <<lb_tool, lb_n, lb_phase, lb_i, retry_count, lb_results, lb_error,
                   lb_log>>

\* pkl.dump(results, f) / json.dump(json_content, f), the file is closed and the
\* loop goes on: next item, next loop (results = [] at line 134), or the end
LabelDump ==
    /\ UNCHANGED notLabel
    /\ lb_pc = "dump"
    /\ lb_disk' = [lb_disk EXCEPT ![LabelFile(lb_tool, lb_phase)] = File(lb_results)]
    /\ IF lb_tool = "inst2desc"
       THEN /\ lb_pc' = "done"
            /\ UNCHANGED <<lb_phase, lb_i, retry_count, lb_results>>
       ELSE IF lb_i < lb_n
       THEN /\ lb_i' = lb_i + 1
            /\ retry_count' = 0
            /\ lb_pc' = "request"
            /\ UNCHANGED <<lb_phase, lb_results>>
       ELSE IF lb_phase = "llama"
       THEN /\ lb_phase' = "gpt"
            /\ lb_results' = <<>>
            /\ lb_i' = 1
            /\ retry_count' = 0
            /\ lb_pc' = "request"
       ELSE /\ lb_pc' = "done"
            /\ UNCHANGED <<lb_phase, lb_i, retry_count, lb_results>>
    /\ UNCHANGED <<lb_tool, lb_n, lb_error, lb_log>>

\* the process is killed; what is on disk stays as it is
LabelKill ==
    /\ UNCHANGED notLabel
    /\ lb_pc \in {"request", "open", "dump"}
    /\ lb_pc' = "killed"
    /\ UNCHANGED <<lb_tool, lb_n, lb_phase, lb_i, retry_count, lb_results, lb_error,
                   lb_disk, lb_log>>

\* the steps of the program itself
LabelRun ==
    \/ LlamaRequest
    \/ \E o \in RequestOutcomes : GptRequest(o)
    \/ \E o \in RequestOutcomes : DescRequest(o)
    \/ LabelOpen
    \/ LabelDump

LabelNext ==
    \/ LabelRun
    \/ LabelKill

-----------------------------------------------------------------------------
(* synthesize.py: main (lines 145-181) over more than CheckpointEvery         *)
(* results.  The pool runs DEFAULT_NUM_PROCESSES = 1 worker, so the results  *)
(* arrive in the order of rtl_itr; the ids are 0..ck_n-1.  A file opened     *)
(* with mode 'wb' is empty from the open until the dump has written it.      *)

CodePatterns == {"success", "mixed"}
CodeOf(pattern, id) == IF pattern = "success" THEN 0 ELSE id % 4

CollectInit ==
    /\ ck_n \in {NumResults - 1, NumResults}
    /\ ck_codes \in CodePatterns
    /\ ck_results = <<>>
    /\ ck_log = Absent
    /\ ck_saved = 0
    /\ ck_result = Absent
    /\ ck_pc = "collect"

CollectIdle ==
    /\ ck_n = 0
    /\ ck_codes = "none"
    /\ ck_results = <<>>
    /\ ck_log = Absent
    /\ ck_saved = 0
    /\ ck_result = Absent
    /\ ck_pc = "off"

\* lines 153-155: the next result is appended; every 100th one starts a dump
CkCollect ==
    /\ UNCHANGED notCollect
    /\ ck_pc = "collect"
    /\ Len(ck_results) < ck_n
    /\ LET idx == Len(ck_results)
       IN  /\ ck_results' = Append(ck_results, <<idx, CodeOf(ck_codes, idx)>>)
           /\ ck_pc' = IF (idx + 1) % CheckpointEvery = 0 THEN "open" ELSE "collect"
    /\ UNCHANGED <<ck_n, ck_codes, ck_log, ck_saved, ck_result>>

\* result_itr is exhausted: the for loop is left (line 159)
CkExhausted ==
    /\ UNCHANGED notCollect
    /\ ck_pc = "collect"
    /\ Len(ck_results) = ck_n
    /\ ck_pc' = "final_open"
    /\ UNCHANGED <<ck_n, ck_codes, ck_results, ck_log, ck_saved, ck_result>>

\* lines 157 and 160: open(tmp_results_pkl_log, 'wb') creates or truncates the log
CkOpen ==
    /\ UNCHANGED notCollect
    /\ ck_pc \in {"open", "final_open"}
    /\ ck_log' = File(<<>>)
    /\ ck_pc' = IF ck_pc = "open" THEN "dump" ELSE "final_dump"
    /\ UNCHANGED <<ck_n, ck_codes, ck_results, ck_saved, ck_result>>

\* lines 158 and 161: pkl.dump(results, f), and the file is closed
CkDump ==
    /\ UNCHANGED notCollect
    /\ ck_pc \in {"dump", "final_dump"}
    /\ ck_log' = File(ck_results)
    /\ ck_saved' = Len(ck_results)
    /\ ck_pc' = IF ck_pc = "dump" THEN "collect" ELSE "result_open"
    /\ UNCHANGED <<ck_n, ck_codes, ck_results, ck_result>>

\* lines 163-176: the three lists are built, synthesis_result.pkl is opened
CkResultOpen ==
    /\ UNCHANGED notCollect
    /\ ck_pc = "result_open"
    /\ ck_result' = File(<<>>)
    /\ ck_pc' = "result_dump"
    /\ UNCHANGED <<ck_n, ck_codes, ck_results, ck_log, ck_saved>>

\* line 177: pkl.dump((success, timeout, fail), f)
CkResultDump ==
    /\ UNCHANGED notCollect
    /\ ck_pc = "result_dump"
    /\ ck_result' =
          File(<<SuccessIds(ck_results), TimeoutIds(ck_results), FailIds(ck_results)>>)
    /\ ck_pc' = "remove"
    /\ UNCHANGED <<ck_n, ck_codes, ck_results, ck_log, ck_saved>>

\* lines 179-181: the temporary log is removed
CkRemove ==
    /\ UNCHANGED notCollect
    /\ ck_pc = "remove"
    /\ ck_log' = Absent
    /\ ck_pc' = "done"
    /\ UNCHANGED <<ck_n, ck_codes, ck_results, ck_saved, ck_result>>

\* the orchestrator is killed; what is on disk stays as it is
CkKill ==
    /\ UNCHANGED notCollect
    /\ ck_pc \notin {"done", "killed", "off"}
    /\ ck_pc' = "killed"
    /\ UNCHANGED <<ck_n, ck_codes, ck_results, ck_log, ck_saved, ck_result>>

CollectNext ==
    \/ CkCollect
    \/ CkExhausted
    \/ CkOpen
    \/ CkDump
    \/ CkResultOpen
    \/ CkResultDump
    \/ CkRemove
    \/ CkKill

-----------------------------------------------------------------------------
(* generate_netlist_json.py: main, generate_netlist_csv.py: main *)

\* f"{e1}_{e2}_{e3}" for e1, e2, e3 in product(("low", "medium", "high"), repeat=3)
EffortStrings ==
    [k \in 1..NumCombinations |->
        EffortProduct[k][1] \o "_" \o EffortProduct[k][2] \o "_" \o EffortProduct[k][3]]

\* value['synthesis_efforts'].split('_')
SplitEffort(s) == EffortProduct[CHOOSE k \in 1..NumCombinations : EffortStrings[k] = s]

\* [(rtl_id, effort) for rtl_id in success for effort in efforts]
RECURSIVE NetlistPairs(_)
NetlistPairs(success) ==
    IF success = <<>> THEN <<>>
    ELSE [k \in 1..NumCombinations |-> <<Head(success), EffortStrings[k]>>]
         \o NetlistPairs(Tail(success))

\* line 41: if (rtl_id, effort) not in fail
Survives_Mut(pair, fail) == TRUE
Survives(pair, fail) == pair \notin fail

\* lines 40-54: the loop that fills records_dict, from position p with counter idx
RECURSIVE NetlistRecords(_, _, _, _)
NetlistRecords(pairs, fail, p, idx) ==
    IF p > Len(pairs) THEN <<>>
    ELSE IF Survives(pairs[p], fail)
    THEN << <<idx, [rtl_id |-> pairs[p][1], synthesis_efforts |-> pairs[p][2]]>> >>
         \o NetlistRecords(pairs, fail, p + 1, idx + 1)
    ELSE NetlistRecords(pairs, fail, p + 1, idx)

\* lines 57-85 of the exporter: rows written and the exception that ends the loop
RECURSIVE ExportRows(_, _, _)
ExportRows(data, graphs, k) ==
    IF k > Len(data) THEN [rows |-> <<>>, error |-> "none"]
    ELSE LET key == data[k][1]
             value == data[k][2]
         IN  IF <<value.rtl_id, value.synthesis_efforts>> \notin graphs
             THEN [rows |-> <<>>, error |-> "FileNotFoundError"]
             ELSE IF "graphgen_status" \notin DOMAIN value
             THEN [rows |-> <<>>, error |-> "KeyError"]
             ELSE LET e == SplitEffort(value.synthesis_efforts)
                      rest == ExportRows(data, graphs, k + 1)
                  IN  [rows |-> << [id |-> key, rtl_id |-> value.rtl_id,
                                    generic_effort |-> e[1], mapping_effort |-> e[2],
                                    optimization_effort |-> e[3],
                                    graphgen_status |-> value.graphgen_status] >>
                                \o rest.rows,
                       error |-> rest.error]

\* success lists: ids of the corpus, each at most once, in completion order
SuccessLists ==
    { s \in UNION { [1..n -> 0..(NumData - 1)] : n \in 0..NumData } : NoDup(s) }

\* pairs a failure list or a set of missing graph files is drawn from
PairCandidates(success) ==
    { <<id, EffortStrings[k]>> : id \in SeqToSet(success),
                                 k \in {1, (NumCombinations + 1) \div 2, NumCombinations} }

NetlistInit ==
    /\ nl_success \in SuccessLists
    /\ nl_fail \in { f \in SUBSET PairCandidates(nl_success) : Cardinality(f) <= MaxFail }
    /\ \E missing \in { m \in SUBSET PairCandidates(nl_success) : Cardinality(m) <= 1 } :
          nl_graphs = SeqToSet(NetlistPairs(nl_success)) \ missing
    /\ nl_verilog = {}
    /\ nl_json = Absent
    /\ nl_csv = Absent
    /\ nl_error = "none"
    /\ nl_pc = "assemble"

NetlistIdle ==
    /\ nl_success = <<>>
    /\ nl_fail = {}
    /\ nl_graphs = {}
    /\ nl_verilog = {}
    /\ nl_json = Absent
    /\ nl_csv = Absent
    /\ nl_error = "none"
    /\ nl_pc = "off"

\* generate_netlist_json.py main: every combination of a successful design has
\* its syn.v and genus.log, so every surviving pair is copied
GenerateNetlistJson ==
    /\ UNCHANGED notNetlist
    /\ nl_pc = "assemble"
    /\ LET records_dict == NetlistRecords(NetlistPairs(nl_success), nl_fail, 1, 0)
       IN  /\ nl_json' = File(records_dict)
           /\ nl_verilog' = { <<r[2].rtl_id, r[2].synthesis_efforts>> :
                                r \in SeqToSet(records_dict) }
    /\ nl_pc' = "export"
    /\ UNCHANGED <<nl_success, nl_fail, nl_graphs, nl_csv, nl_error>>

\* generate_netlist_csv.py main
GenerateNetlistCsv ==
    /\ UNCHANGED notNetlist
    /\ nl_pc = "export"
    /\ LET out == ExportRows(nl_json.data, nl_graphs, 1)
       IN  /\ nl_csv' = File(out.rows)
           /\ nl_error' = out.error
    /\ nl_pc' = "done"
    /\ UNCHANGED <<nl_success, nl_fail, nl_graphs, nl_verilog, nl_json>>

NetlistNext ==
    \/ GenerateNetlistJson
    \/ GenerateNetlistCsv

-----------------------------------------------------------------------------
(* generate_netlist_graph.py *)

\* line 51
types == <<"buf", "and", "or", "xor", "not", "nand", "nor", "xnor", "0", "1", "x",
           "input", "bb_input", "bb_output">>

\* tags a node can carry: the vocabulary and one tag outside it
AllTags == types \o <<"dff">>

\* type_mapping[tag] (lines 52 and 55): the index of the tag, or KeyError
type_mapping_Mut(tag) ==
    IF \E i \in 1..Len(types) : types[i] = tag
    THEN [raises |-> FALSE, code |-> (CHOOSE i \in 1..Len(types) : types[i] = tag) - 1]
    ELSE [raises |-> FALSE, code |-> 0]
type_mapping(tag) ==
    IF \E i \in 1..Len(types) : types[i] = tag
    THEN [raises |-> FALSE, code |-> (CHOOSE i \in 1..Len(types) : types[i] = tag) - 1]
    ELSE [raises |-> TRUE, code |-> 0]

\* anonymize_graph (lines 41-58): every node gets its code and keeps its name in
\* 'name'; the nodes are relabelled 0..n-1 in order.  A node of G is its tag, its
\* name the position in G.nodes().
anonymize_graph(G) ==
    IF \E i \in 1..Len(G) : type_mapping(G[i]).raises
    THEN [raises |-> TRUE, graph |-> <<>>]
    ELSE [raises |-> FALSE,
          graph |-> [i \in 1..Len(G) |->
                        [node |-> i - 1, type |-> type_mapping(G[i]).code, name |-> i]]]

\* process_netlist (lines 60-77) on one netlist: the value returned (None, or the
\* pair), the graph file written, and whether syn_copy.v is left behind.
\* dump_raises: pkl.dump raises OSError (no space left, quota) after
\* open(graph_output_file, 'wb') has created the file, which then stays.
process_netlist(pair, netlist, dump_raises) ==
    LET failed == [ret |-> <<pair>>, dumped |-> FALSE, truncated |-> FALSE,
                   graph |-> <<>>, copy |-> FALSE]
    IN  IF netlist = <<"missing">> \/ netlist = <<"unparsable">> THEN failed
        ELSE LET a == anonymize_graph(netlist)
             IN  IF a.raises THEN failed
                 ELSE IF dump_raises THEN [failed EXCEPT !.truncated = TRUE]
                 ELSE [ret |-> <<>>, dumped |-> TRUE, truncated |-> FALSE,
                       graph |-> a.graph, copy |-> FALSE]

\* the sets of tasks whose pkl.dump raises: none, or one task
DumpFailures(success) ==
    {{}} \cup {{<<success[i], EffortStrings[1]>>} : i \in 1..Len(success)}

\* netlists: n nodes whose tags are consecutive entries of AllTags from the k-th
Window(k, n) == [i \in 1..n |-> AllTags[((k + i - 2) % Len(AllTags)) + 1]]
Netlists ==
    {<<"missing">>, <<"unparsable">>}
        \cup { Window(k, n) : k \in 1..Len(AllTags), n \in 0..MaxNodes }
PlainNetlist == Window(1, MaxNodes)

GraphInit ==
    /\ gg_success \in SuccessLists
    /\ \E special \in { m \in SUBSET PairCandidates(gg_success) : Cardinality(m) <= 1 },
          nl \in Netlists :
          gg_netlists = [p \in SeqToSet(NetlistPairs(gg_success)) |->
                            IF p \in special THEN nl ELSE PlainNetlist]
    /\ gg_graphs = <<>>
    /\ gg_copies = {}
    /\ gg_truncated = {}
    /\ gg_fail = Absent
    /\ gg_pc = "run"

GraphIdle ==
    /\ gg_success = <<>>
    /\ gg_netlists = <<>>
    /\ gg_graphs = <<>>
    /\ gg_copies = {}
    /\ gg_truncated = {}
    /\ gg_fail = Absent
    /\ gg_pc = "off"

\* generate_netlist_graph_multithreads (lines 88-104): pool.imap keeps the order
\* of inputs; the non-None results are dumped as the failure list
GenerateNetlistGraphs ==
    /\ UNCHANGED notGraph
    /\ gg_pc = "run"
    /\ \E dump_failures \in DumpFailures(gg_success) :
          LET inputs == NetlistPairs(gg_success)
              plain == process_netlist(<<>>, PlainNetlist, FALSE)
              result(p) ==
                  IF gg_netlists[p] = PlainNetlist /\ p \notin dump_failures
                  THEN plain
                  ELSE process_netlist(p, gg_netlists[p], p \in dump_failures)
              failed == SelectSeq(inputs, LAMBDA p : result(p).ret # <<>>)
          IN  /\ gg_graphs' = [p \in { q \in DOMAIN gg_netlists : result(q).dumped } |->
                                  result(p).graph]
              /\ gg_copies' = { p \in DOMAIN gg_netlists : result(p).copy }
              /\ gg_truncated' = { p \in DOMAIN gg_netlists : result(p).truncated }
              /\ gg_fail' = File(failed)
    /\ gg_pc' = "done"
    /\ UNCHANGED <<gg_success, gg_netlists>>

GraphNext == GenerateNetlistGraphs

-----------------------------------------------------------------------------
(* synthesize.py: one run of the stage on a corpus of one design, as far as  *)
(* the design's files go (log at lines 33-37, synthesize_rtl at 39-95,       *)
(* the result object at 163-177)                                            *)

\* number of tool invocations synthesize_rtl makes, from the k-th on
RECURSIVE InvocationsFrom(_, _)
InvocationsFrom(outs, k) ==
    IF k > NumCombinations THEN 0
    ELSE IF AbortsSweep(outs[k]) THEN 1
    ELSE 1 + InvocationsFrom(outs, k + 1)

\* the files after a run of the stage that meets the tool outcomes outs:
\* cmd.tcl is written with mode "w", the log is appended to with mode 'a', the
\* tool writes syn.v and the reports of a combination it completes, and the
\* result object is written with mode "wb"
RunStage(files, run, outs) ==
    LET made == InvocationsFrom(outs, 1)
    IN  [log  |-> files.log \o [k \in 1..made |-> <<EffortProduct[k], outs[k]>>],
         cmd  |-> files.cmd \cup 1..made,
         synv |-> [k \in 1..NumCombinations |->
                      IF k <= made /\ outs[k] = "ok" THEN run ELSE files.synv[k]],
         code |-> synthesize_rtl(0, outs)[2]]

RerunInit ==
    /\ rr_files = [log |-> <<>>, cmd |-> {},
                   synv |-> [k \in 1..NumCombinations |-> 0], code |-> -1]
    /\ rr_first = <<>>
    /\ rr_outcomes = <<>>
    /\ rr_pc = "first"

RerunIdle ==
    /\ rr_files = <<>>
    /\ rr_first = <<>>
    /\ rr_outcomes = <<>>
    /\ rr_pc = "off"

\* the stage is run on an empty data directory
FirstRun(outs) ==
    /\ UNCHANGED notRerun
    /\ rr_pc = "first"
    /\ rr_files' = RunStage(rr_files, 1, outs)
    /\ rr_first' = rr_files'
    /\ rr_outcomes' = <<SubSeq(outs, 1, InvocationsFrom(outs, 1))>>
    /\ rr_pc' = "second"

\* the stage is run again on the same corpus and data directory
SecondRun(outs) ==
    /\ UNCHANGED notRerun
    /\ rr_pc = "second"
    /\ rr_files' = RunStage(rr_files, 2, outs)
    /\ rr_outcomes' = Append(rr_outcomes, SubSeq(outs, 1, InvocationsFrom(outs, 1)))
    /\ rr_pc' = "done"
    /\ UNCHANGED rr_first

RerunNext ==
    \/ \E outs \in OutcomeVectors : FirstRun(outs)
    \/ \E outs \in OutcomeVectors : SecondRun(outs)

-----------------------------------------------------------------------------
(* vlsi_judge.py: generate_system_message (output format) and review_output *)

Fields == {"instruction", "description", "verilog"}

\* field.replace('_', ' ').capitalize()
Capitalize(field) ==
    CASE field = "instruction" -> "Instruction"
      [] field = "description" -> "Description"
      [] field = "verilog"     -> "Verilog"

\* lines 249-260: the key of candidate n in the JSON object the judge is told to return
CandidateKey(field, n) == Capitalize(field) \o ToString(n)

Scores == {DefaultThreshold - 1, DefaultThreshold, DefaultThreshold + 1}
Candidates1 ==
    [Similarity_Score : Scores, Design_Type : {"Counter"}, Design_Name : {"counter_12"}]
Candidates2 ==
    [Similarity_Score : Scores, Design_Type : {"Counter", "Adder"},
     Design_Name : {"counter_12", "adder_8bit"}]

\* the verdicts a judge run on the field leaves in its output file
Verdicts(field) ==
    { (CandidateKey(field, 1) :> c1) @@ (CandidateKey(field, 2) :> c2)
          @@ ("Overall_Assessment" :> "...") :
        c1 \in Candidates1, c2 \in Candidates2 }

\* lines 310-318: the body of the try for one item; KeyError when a key is missing
ReviewRaises(v) == "Description1" \notin DOMAIN v \/ "Description2" \notin DOMAIN v
IsLowSimilarity(v, th) ==
    \/ v["Description1"].Similarity_Score < th
    \/ v["Description2"].Similarity_Score < th
IsComponentMismatch(v) ==
    \/ v["Description1"].Design_Type # v["Description2"].Design_Type
    \/ v["Description1"].Design_Name # v["Description2"].Design_Name

ReviewInit ==
    /\ rv_field \in Fields
    /\ threshold = DefaultThreshold
    /\ \E n \in 0..NumVerdicts, vs \in [1..NumVerdicts -> Verdicts(rv_field)] :
          rv_judged = [i \in 1..n |-> <<i, vs[i]>>]
    /\ rv_low = Absent
    /\ rv_mismatch = Absent
    /\ rv_pc = "review"

ReviewIdle ==
    /\ rv_field = "none"
    /\ threshold = DefaultThreshold
    /\ rv_judged = <<>>
    /\ rv_low = Absent
    /\ rv_mismatch = Absent
    /\ rv_pc = "off"

\* review_output (lines 295-347)
ReviewOutput ==
    /\ UNCHANGED notReview
    /\ rv_pc = "review"
    /\ LET kept(test(_)) ==
              SelectSeq(rv_judged, LAMBDA e : ~ReviewRaises(e[2]) /\ test(e[2]))
           low_similarity_items == kept(LAMBDA v : IsLowSimilarity(v, threshold))
           component_mismatch == kept(IsComponentMismatch)
       IN  /\ rv_low' = File([i \in 1..Len(low_similarity_items) |->
                                 low_similarity_items[i][1]])
           /\ rv_mismatch' = File([i \in 1..Len(component_mismatch) |->
                                      component_mismatch[i][1]])
    /\ rv_pc' = "done"
    /\ UNCHANGED <<rv_field, threshold, rv_judged>>

ReviewNext == ReviewOutput

-----------------------------------------------------------------------------
(* vlsi_judge.py: process_batch (lines 167-222), one output of the batch.    *)
(* A response is a sequence of JSON tokens: the punctuation "{" "}" "," ":", *)
(* "k" (a double-quoted string), "w" (a bare word that is no JSON literal)   *)
(* and "1" (a number).  json.loads is the object/string/number part of      *)
(* CPython's decoder (json/decoder.py, messages as up to Python 3.12); an    *)
(* error position is the number of tokens before the offending one.         *)

JsonTokens == {"{", "}", ",", ":", "k", "w", "1"}

PropertyName == "Expecting property name enclosed in double quotes"
Delimiter == "Expecting ',' delimiter"
ColonDelimiter == "Expecting ':' delimiter"
ExpectingValue == "Expecting value"
ExtraData == "Extra data"

Parsed(next) == [ok |-> TRUE, next |-> next, msg |-> "", pos |-> 0]
JSONDecodeError(msg, pos) == [ok |-> FALSE, next |-> 0, msg |-> msg, pos |-> pos]
NoError == Parsed(0)

RECURSIVE ParseValue(_, _)
RECURSIVE ParseMembers(_, _)

\* JSONObject after the key at s[i]
ParseMembers(s, i) ==
    IF i + 1 > Len(s) \/ s[i + 1] # ":" THEN JSONDecodeError(ColonDelimiter, i)
    ELSE LET v == ParseValue(s, i + 2)
             j == v.next
         IN  IF ~v.ok THEN v
             ELSE IF j <= Len(s) /\ s[j] = "}" THEN Parsed(j + 1)
             ELSE IF j > Len(s) \/ s[j] # "," THEN JSONDecodeError(Delimiter, j - 1)
             ELSE IF j + 1 > Len(s) \/ s[j + 1] # "k" THEN JSONDecodeError(PropertyName, j)
             ELSE ParseMembers(s, j + 1)

\* JSONObject after the opening brace at s[i - 1]
ParseObject(s, i) ==
    IF i <= Len(s) /\ s[i] = "}" THEN Parsed(i + 1)
    ELSE IF i > Len(s) \/ s[i] # "k" THEN JSONDecodeError(PropertyName, i - 1)
    ELSE ParseMembers(s, i)

\* scan_once at s[i]
ParseValue(s, i) ==
    IF i > Len(s) THEN JSONDecodeError(ExpectingValue, i - 1)
    ELSE IF s[i] \in {"k", "1"} THEN Parsed(i + 1)
    ELSE IF s[i] = "{" THEN ParseObject(s, i + 1)
    ELSE JSONDecodeError(ExpectingValue, i - 1)

\* json.loads(s): the error raised, or NoError
JsonLoads(s) ==
    LET v == ParseValue(s, 1)
    IN  IF ~v.ok THEN v
        ELSE IF v.next <= Len(s) THEN JSONDecodeError(ExtraData, v.next - 1)
        ELSE NoError

\* response_text.strip().rstrip(',')
RECURSIVE RstripCommas(_)
RstripCommas(s) ==
    IF s # <<>> /\ s[Len(s)] = "," THEN RstripCommas(SubSeq(s, 1, Len(s) - 1)) ELSE s

\* lines 177-179
Preprocess(text) ==
    LET stripped == RstripCommas(text)
    IN  IF stripped = <<>> \/ stripped[Len(stripped)] # "}"
        THEN Append(stripped, "}") ELSE stripped

\* re.sub(r'(\w+)(?=\s*:)', r'"\1"', response_text)
QuoteNames(s) ==
    [i \in 1..Len(s) |->
        IF s[i] \in {"w", "1"} /\ i < Len(s) /\ s[i + 1] = ":" THEN "k" ELSE s[i]]

\* re.sub(r',\s*,', ',', fixed_response): non-overlapping matches, left to right
RECURSIVE CollapseCommas(_)
CollapseCommas(s) ==
    IF Len(s) < 2 THEN s
    ELSE IF s[1] = "," /\ s[2] = "," THEN <<",">> \o CollapseCommas(Tail(Tail(s)))
    ELSE <<s[1]>> \o CollapseCommas(Tail(s))

InsertComma(s, error_pos) ==
    CollapseCommas(SubSeq(s, 1, error_pos) \o <<",">> \o SubSeq(s, error_pos + 1, Len(s)))

AppendComma(s) == Append(s, ",")

Truncate(s, pos) == SubSeq(s, 1, pos)

\* the text the n-th repair hands to json.loads
Repair(n, s, pos) ==
    CASE n = 1 -> QuoteNames(s)
      [] n = 2 -> InsertComma(s, pos)
      [] n = 3 -> AppendComma(s)
      [] n = 4 -> Truncate(s, pos)

\* the if / elif / else on str(e): the try blocks of the branch taken
RepairBranch_Mut(msg) == <<1, 2, 3, 4>>
RepairBranch(msg) ==
    CASE msg = PropertyName -> <<1>>
      [] msg = Delimiter -> <<2>>
      [] OTHER -> <<3, 4>>

NoResult == [ok |-> FALSE, value |-> <<>>]
Result(value) == [ok |-> TRUE, value |-> value]

\* the response the prompt asks for, with a nested object
WellFormed == <<"{", "k", ":", "{", "k", ":", "1", "}", ",", "k", ":", "k", "}">>

Edits(s) ==
    {SubSeq(s, 1, i - 1) \o SubSeq(s, i + 1, Len(s)) : i \in 1..Len(s)}
    \cup {[s EXCEPT ![i] = t] : i \in 1..Len(s), t \in JsonTokens}
    \cup {SubSeq(s, 1, i - 1) \o <<t>> \o SubSeq(s, i, Len(s)) :
             i \in 1..Len(s) + 1, t \in JsonTokens}

RECURSIVE Damaged(_, _)
Damaged(s, n) ==
    IF n = 0 THEN {s}
    ELSE LET less == Damaged(s, n - 1) IN less \cup UNION {Edits(x) : x \in less}

RepairInit ==
    /\ rp_output \in Damaged(WellFormed, MaxEdits)
    /\ response_text = <<>>
    /\ rp_error = NoError
    /\ rp_todo = <<>>
    /\ rp_tried = <<>>
    /\ rp_result = NoResult
    /\ rp_pc = "parse"

RepairIdle ==
    /\ rp_output = <<>>
    /\ response_text = <<>>
    /\ rp_error = NoError
    /\ rp_todo = <<>>
    /\ rp_tried = <<>>
    /\ rp_result = NoResult
    /\ rp_pc = "off"

\* lines 172-184 and the dispatch at 186, 194, 203
ParseResponse ==
    /\ UNCHANGED notRepair
    /\ rp_pc = "parse"
    /\ LET text == Preprocess(rp_output)
           e == JsonLoads(text)
       IN  /\ response_text' = text
           /\ rp_error' = e
           /\ IF e.ok
              THEN /\ rp_result' = Result(text)
                   /\ rp_todo' = <<>>
                   /\ rp_pc' = "done"
              ELSE /\ rp_result' = NoResult
                   /\ rp_todo' = RepairBranch(e.msg)
                   /\ rp_pc' = "repair"
    /\ UNCHANGED <<rp_output, rp_tried>>

\* one try block: json.loads of the repaired text; on JSONDecodeError the next
\* try block of the branch is entered, or None is appended when there is none
TryRepair(n) ==
    /\ UNCHANGED notRepair
    /\ rp_tried' = Append(rp_tried, n)
    /\ LET fixed_response == Repair(n, response_text, rp_error.pos)
       IN  IF JsonLoads(fixed_response).ok
           THEN /\ rp_result' = Result(fixed_response)
                /\ rp_todo' = <<>>
                /\ rp_pc' = "done"
           ELSE /\ rp_result' = NoResult
                /\ rp_todo' = Tail(rp_todo)
                /\ rp_pc' = IF Tail(rp_todo) = <<>> THEN "done" ELSE "repair"
    /\ UNCHANGED <<rp_output, response_text, rp_error>>

\* the try block entered is the first one left of the branch
Entered(n) == rp_pc = "repair" /\ rp_todo # <<>> /\ Head(rp_todo) = n

\* lines 187-193
RepairQuoteNames ==
    /\ Entered(1)
    /\ TryRepair(1)

\* lines 195-202
RepairInsertComma ==
    /\ Entered(2)
    /\ TryRepair(2)

\* lines 204-208
RepairAppendComma ==
    /\ Entered(3)
    /\ TryRepair(3)

\* lines 209-216
RepairTruncate ==
    /\ Entered(4)
    /\ TryRepair(4)

RepairNext ==
    \/ ParseResponse
    \/ RepairQuoteNames
    \/ RepairInsertComma
    \/ RepairAppendComma
    \/ RepairTruncate

-----------------------------------------------------------------------------
(* combine_csv.py.  A CSV is the sequence of its rows; a row has its id and  *)
(* "rest", the cells of its other columns.  Both inputs carry the header of  *)
(* generate_netlist_csv.py, whose cells (integers, effort words, True/False, *)
(* quoted dict texts) pandas reads and writes back as they are.             *)

\* ids an input can hold: around 0 and around the offset
IdValues == {0, 1, IdOffset, IdOffset + 1}
RestValues == {"low", "high"}
CsvRows == [id : IdValues, rest : RestValues]

\* the CSVs of at most NumCsvRows rows whose ids are unique
Csvs ==
    {rows \in UNION {[1..n -> CsvRows] : n \in 0..NumCsvRows} :
        \A i, j \in 1..Len(rows) : rows[i].id = rows[j].id => i = j}

\* line 10: MGverilog['id'] = MGverilog['id'] + 1000000
OffsetIds_Mut(rows) == rows
OffsetIds(rows) == [i \in 1..Len(rows) |-> [rows[i] EXCEPT !.id = @ + IdOffset]]

\* line 11: pd.concat([MGverilog, RTLCoder], ignore_index=True)
Concat_Mut(first, second) == first \o OffsetIds(second)
Concat(first, second) == first \o second

CombineInit ==
    /\ MGverilog \in Csvs
    /\ RTLCoder \in Csvs
    /\ cb_out = Absent
    /\ cb_pc = "combine"

CombineIdle ==
    /\ MGverilog = <<>>
    /\ RTLCoder = <<>>
    /\ cb_out = Absent
    /\ cb_pc = "off"

\* the script, lines 8-12
CombineCsv ==
    /\ UNCHANGED notCombine
    /\ cb_pc = "combine"
    /\ cb_out' = File(Concat(OffsetIds(MGverilog), RTLCoder))
    /\ cb_pc' = "done"
    /\ UNCHANGED <<MGverilog, RTLCoder>>

CombineNext == CombineCsv

-----------------------------------------------------------------------------
(* The effort enumerations: synthesize.py lines 45 and 63-64 (the working    *)
(* directories), generate_netlist_graph.py line 96 and                      *)
(* generate_netlist_json.py line 39 (the efforts lists).  Each program      *)
(* steps its own itertools.product iterator over ("low", "medium", "high")  *)
(* and formats the triple with underscores.                                 *)

EffortPrograms == {"synthesize", "graph", "json"}

ProductEnd == <<0, 0, 0>>
ProductStart == <<1, 1, 1>>

\* next(product(pool, repeat=3)): the rightmost index moves fastest
ProductStep_Mut(at) ==
    IF at[1] < NumEfforts THEN <<at[1] + 1, at[2], at[3]>>
    ELSE IF at[2] < NumEfforts THEN <<1, at[2] + 1, at[3]>>
    ELSE IF at[3] < NumEfforts THEN <<1, 1, at[3] + 1>>
    ELSE ProductEnd
ProductStep(at) ==
    IF at[3] < NumEfforts THEN <<at[1], at[2], at[3] + 1>>
    ELSE IF at[2] < NumEfforts THEN <<at[1], at[2] + 1, 1>>
    ELSE IF at[1] < NumEfforts THEN <<at[1] + 1, 1, 1>>
    ELSE ProductEnd

\* f"{generic_effort}_{map_effort}_{opt_effort}" / f'{e1}_{e2}_{e3}'
EffortName(at) == efforts[at[1]] \o "_" \o efforts[at[2]] \o "_" \o efforts[at[3]]

EffortsInit ==
    /\ ef_at = [p \in EffortPrograms |-> ProductStart]
    /\ ef_out = [p \in EffortPrograms |-> <<>>]

EffortsIdle ==
    /\ ef_at = [p \in EffortPrograms |-> ProductEnd]
    /\ ef_out = [p \in EffortPrograms |-> <<>>]

\* one iteration of the loop / comprehension of program p
NextEffort(p) ==
    /\ UNCHANGED notEfforts
    /\ ef_out' = [ef_out EXCEPT ![p] = Append(@, EffortName(ef_at[p]))]
    /\ ef_at' = [ef_at EXCEPT ![p] = ProductStep(@)]

\* synthesize.py lines 63-64
SynthesizeEffort ==
    /\ ef_at["synthesize"] # ProductEnd
    /\ NextEffort("synthesize")

\* generate_netlist_graph.py line 96
GraphEffort ==
    /\ ef_at["graph"] # ProductEnd
    /\ NextEffort("graph")

\* generate_netlist_json.py line 39
JsonEffort ==
    /\ ef_at["json"] # ProductEnd
    /\ NextEffort("json")

EffortsNext ==
    \/ SynthesizeEffort
    \/ GraphEffort
    \/ JsonEffort

-----------------------------------------------------------------------------
(* networkx_dataflow_graphgen.py: create_module_graph (lines 118-259).  A    *)
(* graph is [nodes, edges]: nodes is the sequence G.nodes(data=True) of      *)
(* [name, label] in insertion order, label "" standing for no 'label'       *)
(* attribute; edges is the set of <<u, v>>.  A node identifier handed out    *)
(* is <<"op", n>> for f'op_{n}' and <<"signal", n>> for f'signal_{n}'.       *)

SignalIds == {<<"a", "b", "c">>[i] : i \in 1..NumSignals}

\* repr(signal) and the same with "." replaced by "_"
Dotted(s) == "top." \o s
Underscored(s) == "top_" \o s

\* name.replace(".", "_") on the names of the model
Replace(name) ==
    IF \E s \in SignalIds : name = Dotted(s)
    THEN Underscored(CHOOSE s \in SignalIds : name = Dotted(s))
    ELSE name

EmptyGraph == [nodes |-> <<>>, edges |-> {}]
NoGraph == [none |-> TRUE, nodes |-> <<>>, edges |-> {}]
SomeGraph(g) == [none |-> FALSE, nodes |-> g.nodes, edges |-> g.edges]

NodeNames(g) == {g.nodes[i].name : i \in 1..Len(g.nodes)}

\* the signal graphs of signal s.  The node for s itself carries the label
\* repr(s); a leaf is an unlabelled node named after a signal, with dots or
\* with underscores; an operator node carries its operator as label.
TopNode(s) == [name |-> Underscored(s) \o "_graphrename", label |-> Dotted(s)]
LeafNode(t, style) ==
    [name |-> IF style = "dot" THEN Dotted(t) ELSE Underscored(t), label |-> ""]
OpNode == [name |-> "Plus", label |-> "Plus"]

\* s = t
AssignGraph(s, t, style) ==
    [nodes |-> <<TopNode(s), LeafNode(t, style)>>,
     edges |-> {<<TopNode(s).name, LeafNode(t, style).name>>}]
\* s = s + t
BinaryGraph(s, t) ==
    [nodes |-> <<TopNode(s), OpNode, LeafNode(s, "underscore")>>
                  \o (IF t = s THEN <<>> ELSE <<LeafNode(t, "underscore")>>),
     edges |-> {<<TopNode(s).name, "Plus">>, <<"Plus", Underscored(s)>>,
                <<"Plus", Underscored(t)>>}]
\* s = t, the node for s already carrying the name with underscores
CanonicalGraph(s, t) ==
    [nodes |-> <<[name |-> Underscored(s), label |-> Dotted(s)], LeafNode(t, "underscore")>>,
     edges |-> {<<Underscored(s), Underscored(t)>>}]
\* no node carries the label repr(s)
UnlabelledGraph(s) ==
    [nodes |-> <<LeafNode(s, "underscore")>>, edges |-> {}]

SignalGraphs(s) ==
    {AssignGraph(s, t, style) : t \in SignalIds, style \in {"dot", "underscore"}}
    \cup {BinaryGraph(s, t) : t \in SignalIds}
    \cup {CanonicalGraph(s, t) : t \in SignalIds \ {s}}
    \cup {UnlabelledGraph(s)}

\* merge_nodes_two (lines 187-204) and one round of merge_nodes (lines 213-229):
\* the edges of source are added at target, then source is removed
merge_nodes_two(g, source, target) ==
    LET added == g.edges
                    \cup {<<e[1], target>> : e \in {x \in g.edges : x[2] = source}}
                    \cup {<<target, e[2]>> : e \in {x \in g.edges : x[1] = source}}
    IN  [nodes |-> SelectSeq(g.nodes, LAMBDA n : n.name # source),
         edges |-> {e \in added : e[1] # source /\ e[2] # source}]

\* steps 2 and 3 (lines 161-180) from the i-th node on: the nodes not yet in
\* node_mapping that carry a label (kind "op") or carry none (kind "signal")
\* get the next identifier of the kind; step 3 labels the node with its name
RECURSIVE RenameNodes(_, _, _, _, _)
RenameNodes(nodes, i, kind, node_mapping, counter) ==
    IF i > Len(nodes)
    THEN [nodes |-> nodes, node_mapping |-> node_mapping, counter |-> counter]
    ELSE IF nodes[i].name \in DOMAIN node_mapping \/ (kind = "op" /\ nodes[i].label = "")
    THEN RenameNodes(nodes, i + 1, kind, node_mapping, counter)
    ELSE RenameNodes(
             IF kind = "op" THEN nodes
             ELSE [nodes EXCEPT ![i].label = Replace(nodes[i].name)],
             i + 1, kind,
             node_mapping @@ (nodes[i].name :> <<kind, counter>>),
             counter + 1)

\* nx.relabel_nodes(G_signal, node_mapping): every node is in node_mapping
relabel_nodes(g, node_mapping) ==
    [nodes |-> [i \in 1..Len(g.nodes) |->
                   [g.nodes[i] EXCEPT !.name = node_mapping[g.nodes[i].name]]],
     edges |-> {<<node_mapping[e[1]], node_mapping[e[2]]>> : e \in g.edges}]

\* a counter read when a subgraph is entered
StartCounter_Mut(counter) == 0
StartCounter(counter) == counter

\* process_signal_graph (lines 124-185): [none, graph, op, signal], op and
\* signal being the counters on return
process_signal_graph(G_signal, signal_name, op_counter, signal_counter) ==
    LET nodes == G_signal.nodes
        found == {i \in 1..Len(nodes) : nodes[i].label = signal_name}
    IN  IF found = {}
        THEN [none |-> TRUE, graph |-> EmptyGraph,
              op |-> op_counter, signal |-> signal_counter]
        ELSE
          LET at == CHOOSE i \in found : \A j \in found : i <= j
              current_signal_node == nodes[at].name
              new_node_name == Replace(signal_name)
              merges == new_node_name \in NodeNames(G_signal)
                            /\ new_node_name # current_signal_node
              \* line 151 sets the label in the data of the removed node
              step1 == IF merges
                       THEN merge_nodes_two(G_signal, current_signal_node, new_node_name)
                       ELSE [G_signal EXCEPT !.nodes[at].label = new_node_name]
              first == IF merges THEN new_node_name ELSE current_signal_node
              step2 == RenameNodes(step1.nodes, 1, "op",
                                   (first :> <<"signal", StartCounter(signal_counter)>>),
                                   StartCounter(op_counter))
              step3 == RenameNodes(step2.nodes, 1, "signal", step2.node_mapping,
                                   StartCounter(signal_counter) + 1)
          IN  [none |-> FALSE,
               graph |-> relabel_nodes([nodes |-> step3.nodes, edges |-> step1.edges],
                                       step3.node_mapping),
               op |-> step2.counter,
               signal |-> step3.counter]

\* nx.compose(G, H): the nodes of G, then the new nodes of H; the attributes of
\* H win on a common node
compose(G, H) ==
    LET inH(name) == \E i \in 1..Len(H.nodes) : H.nodes[i].name = name
        ofH(name) == H.nodes[CHOOSE i \in 1..Len(H.nodes) : H.nodes[i].name = name]
    IN  [nodes |-> [i \in 1..Len(G.nodes) |->
                       IF inH(G.nodes[i].name) THEN ofH(G.nodes[i].name) ELSE G.nodes[i]]
                   \o SelectSeq(H.nodes, LAMBDA n : n.name \notin NodeNames(G)),
         edges |-> G.edges \cup H.edges]

RECURSIVE ComposeAll(_, _)
ComposeAll(graphs, acc) ==
    IF graphs = <<>> THEN acc ELSE ComposeAll(Tail(graphs), compose(acc, Head(graphs)))

\* lines 246-252: the nodes that enter label_to_nodes
IsMergeable(n) == n.name[1] # "op" /\ n.label # ""

\* label_to_nodes[label][0] for the label of node n
MainNode(g, n) ==
    g.nodes[CHOOSE i \in 1..Len(g.nodes) :
                /\ IsMergeable(g.nodes[i]) /\ g.nodes[i].label = n.label
                /\ \A j \in 1..(i - 1) :
                      ~(IsMergeable(g.nodes[j]) /\ g.nodes[j].label = n.label)].name

\* lines 255-257 from the i-th node of the composed graph on.  The lists of
\* label_to_nodes are disjoint, so the duplicates are merged in node order.
RECURSIVE MergeDuplicates(_, _, _)
MergeDuplicates(composed, i, g) ==
    IF i > Len(composed.nodes) THEN g
    ELSE LET n == composed.nodes[i]
         IN  IF IsMergeable(n) /\ MainNode(composed, n) # n.name
             THEN MergeDuplicates(composed, i + 1,
                                  merge_nodes_two(g, n.name, MainNode(composed, n)))
             ELSE MergeDuplicates(composed, i + 1, g)

SignalLists ==
    {s \in UNION {[1..n -> SignalIds] : n \in 1..NumSignals} : NoDup(s)}

ModuleInit ==
    /\ signals \in SignalLists
    /\ mg_G \in [SignalIds -> UNION {SignalGraphs(s) : s \in SignalIds}]
    /\ \A s \in SignalIds :
          mg_G[s] \in (IF InList(s, signals) THEN SignalGraphs(s)
                       ELSE {UnlabelledGraph(s)})
    /\ mg_next = 1
    /\ op_id_counter = 0
    /\ signal_id_counter = 0
    /\ transformed_graphs = <<>>
    /\ mg_composed = EmptyGraph
    /\ module_graph = NoGraph
    /\ mg_pc = "process"

ModuleIdle ==
    /\ signals = <<>>
    /\ mg_G = <<>>
    /\ mg_next = 1
    /\ op_id_counter = 0
    /\ signal_id_counter = 0
    /\ transformed_graphs = <<>>
    /\ mg_composed = EmptyGraph
    /\ module_graph = NoGraph
    /\ mg_pc = "off"

\* one iteration of the loop of lines 233-238
ProcessSignalGraph ==
    /\ UNCHANGED notModule
    /\ mg_pc = "process"
    /\ mg_next <= Len(signals)
    /\ LET signal == signals[mg_next]
           G_transformed == process_signal_graph(mg_G[signal], Dotted(signal),
                                                 op_id_counter, signal_id_counter)
       IN  /\ op_id_counter' = G_transformed.op
           /\ signal_id_counter' = G_transformed.signal
           /\ IF G_transformed.none
              THEN /\ mg_pc' = "done"
                   /\ UNCHANGED <<transformed_graphs, mg_next>>
              ELSE /\ transformed_graphs' = Append(transformed_graphs, G_transformed.graph)
                   /\ mg_next' = mg_next + 1
                   /\ mg_pc' = IF mg_next = Len(signals) THEN "compose" ELSE "process"
    /\ UNCHANGED <<signals, mg_G, mg_composed, module_graph>>

\* step 4 (lines 241-243)
ComposeGraphs ==
    /\ UNCHANGED notModule
    /\ mg_pc = "compose"
    /\ mg_composed' = ComposeAll(transformed_graphs, EmptyGraph)
    /\ mg_pc' = "merge"
    /\ UNCHANGED <<signals, mg_G, mg_next, op_id_counter, signal_id_counter,
                   transformed_graphs, module_graph>>

\* lines 246-259
MergeSameLabels ==
    /\ UNCHANGED notModule
    /\ mg_pc = "merge"
    /\ module_graph' = SomeGraph(MergeDuplicates(mg_composed, 1, mg_composed))
    /\ mg_pc' = "done"
    /\ UNCHANGED <<signals, mg_G, mg_next, op_id_counter, signal_id_counter,
                   transformed_graphs, mg_composed>>

ModuleNext ==
    \/ ProcessSignalGraph
    \/ ComposeGraphs
    \/ MergeSameLabels

-----------------------------------------------------------------------------
(* The stages of the flow on one base data directory: what each opens and  *)
(* what each writes.  A path is the sequence of its components under       *)
(* data_dir; an entry of a serialized file (a pair of a list, a record of  *)
(* a JSON object and its keys) is the path of the file followed by the     *)
(* entry.                                                                  *)

FlowIds == 0..(NumData - 1)
FlowEfforts == {EffortStrings[k] : k \in 1..NumCombinations}
FlowModule == "top"

PromptFile(prompt_type) ==
    IF prompt_type THEN "instruction.txt" ELSE "description.txt"

\* f"{rtl_id}_{effort}", f"{idx}_{module_name}"
PairName(id, name) == ToString(id) \o "_" \o name

SynthesisResult == <<"synthesis", "synthesis_result.pkl">>

\* a list in every order a run can produce it
OrdersOf(S) ==
    {s \in [1..Cardinality(S) -> S] : \A i, j \in 1..Cardinality(S) : s[i] = s[j] => i = j}

\* the first of the paths, opened in this order, that is not there: the open
\* (or the subscript) that raises; <<>> when every one is found
RECURSIVE FirstMissing(_, _)
FirstMissing(lookups, dir) ==
    IF lookups = <<>> THEN <<>>
    ELSE IF Head(lookups) \notin dir THEN Head(lookups)
    ELSE FirstMissing(Tail(lookups), dir)

FlowInit ==
    /\ fl_success \in SUBSET FlowIds
    /\ fl_prompt \in BOOLEAN
    /\ data_dir = {}
    /\ fl_ran = {}
    /\ fl_missed = {}

FlowIdle ==
    /\ fl_success = {}
    /\ fl_prompt = FALSE
    /\ data_dir = {}
    /\ fl_ran = {}
    /\ fl_missed = {}

\* synthesize.py: process_rtl writes the prompt and rtl.sv of every id, the
\* tool leaves syn.v and genus.log for every effort of a successful id
FlowSynthesize ==
    /\ UNCHANGED notFlow
    /\ "synthesize" \notin fl_ran
    /\ data_dir' = data_dir
          \cup {<<"synthesis", ToString(i), f>> :
                   i \in FlowIds, f \in {PromptFile(fl_prompt), "rtl.sv"}}
          \cup {<<"synthesis", ToString(i), "syn", e, f>> :
                   i \in fl_success, e \in FlowEfforts, f \in {"syn.v", "genus.log"}}
          \cup {SynthesisResult}
    /\ fl_ran' = fl_ran \cup {"synthesize"}
    /\ UNCHANGED <<fl_success, fl_prompt, fl_missed>>

\* pyverilog.py main with --synthesis-dir data_dir/synthesis: the file of
\* every id is handed to the parser, which fails on a file that is not there
FlowPyverilog ==
    /\ UNCHANGED notFlow
    /\ "synthesize" \in fl_ran
    /\ "pyverilog" \notin fl_ran
    /\ LET rtl(i) == <<"synthesis", ToString(i), "rtl.v">>
           found == {i \in FlowIds : rtl(i) \in data_dir}
           analysis == <<"pyverilog", "pyverilog_analysis.pkl">>
       IN  /\ fl_missed' = fl_missed \cup
                 {<<"pyverilog", rtl(i)>> : i \in FlowIds \ found}
           /\ \E analyzed_ok \in SUBSET found :
                 data_dir' = data_dir \cup {analysis}
                    \cup {<<"pyverilog", ToString(i), FlowModule \o ".pkl">> :
                             i \in analyzed_ok}
                    \cup {analysis \o <<PairName(i, FlowModule)>> :
                             i \in analyzed_ok}
    /\ fl_ran' = fl_ran \cup {"pyverilog"}
    /\ UNCHANGED <<fl_success, fl_prompt>>

\* predict_circuit_type.py main: the prompt and the source of every
\* successful id are read first, the label files are dumped in the loops
FlowPredictCircuitType ==
    /\ UNCHANGED notFlow
    /\ "synthesize" \in fl_ran
    /\ "predict_circuit_type" \notin fl_ran
    /\ \E success \in OrdersOf(fl_success) :
          LET reads == [k \in 1..Len(success) |->
                          << <<"synthesis", ToString(success[k]), PromptFile(fl_prompt)>>,
                             <<"synthesis", ToString(success[k]), "rtl.v">> >>]
              missing == FirstMissing(<<SynthesisResult>> \o Flatten(reads), data_dir)
          IN  IF missing # <<>>
              THEN /\ fl_missed' = fl_missed \cup {<<"predict_circuit_type", missing>>}
                   /\ UNCHANGED data_dir
              ELSE /\ data_dir' = data_dir \cup
                         IF success = <<>> THEN {}
                         ELSE {<<"rtl_data", "Llama3_70b_label.pkl">>,
                               <<"rtl_data", "GPT_4o_label.pkl">>}
                   /\ UNCHANGED fl_missed
    /\ fl_ran' = fl_ran \cup {"predict_circuit_type"}
    /\ UNCHANGED <<fl_success, fl_prompt>>

\* generate_rtl_json.py main
FlowGenerateRtlJson ==
    /\ UNCHANGED notFlow
    /\ {"synthesize", "pyverilog", "predict_circuit_type"} \subseteq fl_ran
    /\ "generate_rtl_json" \notin fl_ran
    /\ LET analysis == <<"pyverilog", "pyverilog_analysis.pkl">>
           rtl_json == <<"rtl_data", "rtl.json">>
           analyzed_ok ==
               {i \in FlowIds : analysis \o <<PairName(i, FlowModule)>> \in data_dir}
           graphs == [k \in 1..Cardinality(analyzed_ok) |->
                        LET i == CHOOSE j \in analyzed_ok :
                                    Cardinality({h \in analyzed_ok : h < j}) = k - 1
                        IN  <<"pyverilog", ToString(i), FlowModule \o ".pkl">>]
           copied == {<<"rtl_data", "dataflow_graph", PairName(i, FlowModule) \o ".pkl">> :
                         i \in analyzed_ok}
           type_prediction ==
               /\ <<"rtl_data", "Llama3_70b_label.pkl">> \in data_dir
               /\ <<"rtl_data", "GPT_4o_label.pkl">> \in data_dir
           reads == [k \in 1..NumData |->
                        << <<"synthesis", ToString(k - 1), "rtl.sv">>,
                           <<"synthesis", ToString(k - 1), PromptFile(fl_prompt)>> >>]
           keys == {"verilog", "anonymized_verilog", "mapping", "instruction",
                    "description", "synthesis_status"}
                   \cup (IF analysis \in data_dir THEN {"dataflow_status"} ELSE {})
                   \cup (IF type_prediction
                         THEN {"consistent_label", "GPT_4o_label", "Llama3_70b_label"}
                         ELSE {})
           early == FirstMissing(<<SynthesisResult>> \o graphs, data_dir)
           late == FirstMissing(Flatten(reads), data_dir)
       IN  IF early # <<>>
           THEN /\ fl_missed' = fl_missed \cup {<<"generate_rtl_json", early>>}
                /\ UNCHANGED data_dir
           ELSE IF late # <<>>
           THEN /\ fl_missed' = fl_missed \cup {<<"generate_rtl_json", late>>}
                /\ data_dir' = data_dir \cup copied \cup {rtl_json}
           ELSE /\ data_dir' = data_dir \cup copied \cup {rtl_json}
                     \cup {rtl_json \o <<ToString(i), k>> : i \in FlowIds, k \in keys}
                /\ UNCHANGED fl_missed
    /\ fl_ran' = fl_ran \cup {"generate_rtl_json"}
    /\ UNCHANGED <<fl_success, fl_prompt>>

\* generate_rtl_csv.py main: rtl.csv is opened, then every record of
\* rtl.json is read key by key
FlowGenerateRtlCsv ==
    /\ UNCHANGED notFlow
    /\ "generate_rtl_json" \in fl_ran
    /\ "generate_rtl_csv" \notin fl_ran
    /\ LET rtl_json == <<"rtl_data", "rtl.json">>
           record(i) == rtl_json \o <<ToString(i)>>
           records == {i \in FlowIds :
                          \E p \in data_dir : Len(p) = 4 /\ SubSeq(p, 1, 3) = record(i)}
           reads == [k \in 1..NumData |->
                        IF k - 1 \notin records THEN <<>>
                        ELSE << record(k - 1) \o <<"name_mapping">>,
                                record(k - 1) \o <<"dataflow_status">>,
                                record(k - 1) \o <<"synthesis_status">>,
                                <<"synthesis", ToString(k - 1), "rtl.sv">>,
                                record(k - 1) \o <<"GPT_4o_label">>,
                                record(k - 1) \o <<"Llama3_70b_label">>,
                                record(k - 1) \o <<"consistent_label">> >>]
           missing == FirstMissing(<<rtl_json>> \o Flatten(reads), data_dir)
       IN  /\ fl_missed' = IF missing = <<>> THEN fl_missed
                           ELSE fl_missed \cup {<<"generate_rtl_csv", missing>>}
           /\ data_dir' = data_dir \cup {<<"rtl_data", "rtl.csv">>}
    /\ fl_ran' = fl_ran \cup {"generate_rtl_csv"}
    /\ UNCHANGED <<fl_success, fl_prompt>>

\* generate_netlist_graph.py: a pair whose graph is not produced is in the
\* failure list, the others have their graph file
FlowGenerateNetlistGraph ==
    /\ UNCHANGED notFlow
    /\ "synthesize" \in fl_ran
    /\ "generate_netlist_graph" \notin fl_ran
    /\ LET fail_list == <<"netlist", "netlist_graphgen_fail.pkl">>
           inputs == {<<i, e>> : i \in fl_success, e \in FlowEfforts}
           unread == {p \in inputs :
                         <<"synthesis", ToString(p[1]), "syn", p[2], "syn.v">>
                             \notin data_dir}
       IN  IF SynthesisResult \notin data_dir
           THEN /\ fl_missed' = fl_missed \cup
                                   {<<"generate_netlist_graph", SynthesisResult>>}
                /\ UNCHANGED data_dir
           ELSE /\ fl_missed' = fl_missed \cup
                      {<<"generate_netlist_graph",
                         <<"synthesis", ToString(p[1]), "syn", p[2], "syn.v">> >> :
                          p \in unread}
                /\ \E broken \in SUBSET fl_success :
                      LET fail == unread \cup {<<i, EffortStrings[1]>> : i \in broken}
                      IN  data_dir' = data_dir \cup {fail_list}
                             \cup {fail_list \o <<PairName(p[1], p[2])>> : p \in fail}
                             \cup {<<"netlist", "graph", PairName(p[1], p[2]) \o ".pkl">> :
                                      p \in inputs \ fail}
    /\ fl_ran' = fl_ran \cup {"generate_netlist_graph"}
    /\ UNCHANGED <<fl_success, fl_prompt>>

\* generate_netlist_json.py main
FlowGenerateNetlistJson ==
    /\ UNCHANGED notFlow
    /\ "generate_netlist_graph" \in fl_ran
    /\ "generate_netlist_json" \notin fl_ran
    /\ LET fail_list == <<"netlist_data", "netlist_graphgen_fail.pkl">>
           netlist_json == <<"netlist_data", "netlist.json">>
           missing == FirstMissing(<<SynthesisResult, fail_list>>, data_dir)
           kept == {p \in {<<i, e>> : i \in fl_success, e \in FlowEfforts} :
                       fail_list \o <<PairName(p[1], p[2])>> \notin data_dir}
           copied == {p \in kept :
                         \A f \in {"syn.v", "genus.log"} :
                             <<"synthesis", ToString(p[1]), "syn", p[2], f>> \in data_dir}
       IN  IF missing # <<>>
           THEN /\ fl_missed' = fl_missed \cup {<<"generate_netlist_json", missing>>}
                /\ UNCHANGED data_dir
           ELSE /\ data_dir' = data_dir \cup {netlist_json}
                     \cup {<<"netlist_data", "verilog", PairName(p[1], p[2]) \o ".v">> :
                              p \in copied}
                     \cup {<<"netlist_data", "synthesis_log",
                             PairName(p[1], p[2]) \o ".log">> : p \in copied}
                     \cup {netlist_json \o <<PairName(p[1], p[2]), k>> :
                              p \in kept, k \in {"rtl_id", "synthesis_efforts"}}
                /\ UNCHANGED fl_missed
    /\ fl_ran' = fl_ran \cup {"generate_netlist_json"}
    /\ UNCHANGED <<fl_success, fl_prompt>>

\* generate_netlist_csv.py main: netlist.json is read, netlist.csv opened,
\* then the graph of every record is loaded
FlowGenerateNetlistCsv ==
    /\ UNCHANGED notFlow
    /\ "generate_netlist_json" \in fl_ran
    /\ "generate_netlist_csv" \notin fl_ran
    /\ LET netlist_json == <<"netlist_data", "netlist.json">>
           record(p) == netlist_json \o <<PairName(p[1], p[2])>>
           records == {p \in {<<i, e>> : i \in FlowIds, e \in FlowEfforts} :
                          \E q \in data_dir : Len(q) = 4 /\ SubSeq(q, 1, 3) = record(p)}
           reads(p) == << record(p) \o <<"rtl_id">>,
                          record(p) \o <<"synthesis_efforts">>,
                          <<"netlist_data", "graph", PairName(p[1], p[2]) \o ".pkl">>,
                          record(p) \o <<"graphgen_status">>,
                          <<"netlist_data", "verilog", PairName(p[1], p[2]) \o ".v">> >>
           rows == [k \in 1..(NumData * NumCombinations) |->
                       LET p == <<(k - 1) \div NumCombinations,
                                  EffortStrings[((k - 1) % NumCombinations) + 1]>>
                       IN  IF p \in records THEN reads(p) ELSE <<>>]
           missing == FirstMissing(<<netlist_json>> \o Flatten(rows), data_dir)
       IN  /\ fl_missed' = IF missing = <<>> THEN fl_missed
                           ELSE fl_missed \cup {<<"generate_netlist_csv", missing>>}
           /\ data_dir' = IF missing = netlist_json THEN data_dir
                          ELSE data_dir \cup {<<"netlist_data", "netlist.csv">>}
    /\ fl_ran' = fl_ran \cup {"generate_netlist_csv"}
    /\ UNCHANGED <<fl_success, fl_prompt>>

FlowNext ==
    \/ FlowSynthesize
    \/ FlowPyverilog
    \/ FlowPredictCircuitType
    \/ FlowGenerateRtlJson
    \/ FlowGenerateRtlCsv
    \/ FlowGenerateNetlistGraph
    \/ FlowGenerateNetlistJson
    \/ FlowGenerateNetlistCsv

-----------------------------------------------------------------------------
(* Specifications *)

InitSweep ==
    SweepInit /\ SynthIdle /\ AnonIdle /\ AnalyzeIdle
    /\ AssembleIdle /\ JudgeIdle /\ LabelIdle /\ CollectIdle
    /\ NetlistIdle /\ GraphIdle /\ RerunIdle /\ ReviewIdle
    /\ RepairIdle /\ CombineIdle /\ EffortsIdle /\ ModuleIdle
    /\ FlowIdle
NextSweep == SweepNext
SpecSweep == InitSweep /\ [][NextSweep]_vars

InitSynth ==
    SynthInit /\ SweepIdle /\ AnonIdle /\ AnalyzeIdle
    /\ AssembleIdle /\ JudgeIdle /\ LabelIdle /\ CollectIdle
    /\ NetlistIdle /\ GraphIdle /\ RerunIdle /\ ReviewIdle
    /\ RepairIdle /\ CombineIdle /\ EffortsIdle /\ ModuleIdle
    /\ FlowIdle
NextSynth == SynthNext
SpecSynth == InitSynth /\ [][NextSynth]_vars

InitAnon ==
    AnonInit /\ SweepIdle /\ SynthIdle /\ AnalyzeIdle
    /\ AssembleIdle /\ JudgeIdle /\ LabelIdle /\ CollectIdle
    /\ NetlistIdle /\ GraphIdle /\ RerunIdle /\ ReviewIdle
    /\ RepairIdle /\ CombineIdle /\ EffortsIdle /\ ModuleIdle
    /\ FlowIdle
NextAnon == AnonNext
SpecAnon == InitAnon /\ [][NextAnon]_vars

InitAnalyze ==
    AnalyzeInit /\ SweepIdle /\ SynthIdle /\ AnonIdle
    /\ AssembleIdle /\ JudgeIdle /\ LabelIdle /\ CollectIdle
    /\ NetlistIdle /\ GraphIdle /\ RerunIdle /\ ReviewIdle
    /\ RepairIdle /\ CombineIdle /\ EffortsIdle /\ ModuleIdle
    /\ FlowIdle
NextAnalyze == AnalyzeNext
SpecAnalyze == InitAnalyze /\ [][NextAnalyze]_vars

InitAssemble ==
    AssembleInit /\ SweepIdle /\ SynthIdle /\ AnonIdle
    /\ AnalyzeIdle /\ JudgeIdle /\ LabelIdle /\ CollectIdle
    /\ NetlistIdle /\ GraphIdle /\ RerunIdle /\ ReviewIdle
    /\ RepairIdle /\ CombineIdle /\ EffortsIdle /\ ModuleIdle
    /\ FlowIdle
NextAssemble == AssembleNext
SpecAssemble == InitAssemble /\ [][NextAssemble]_vars

InitJudge ==
    JudgeInit /\ SweepIdle /\ SynthIdle /\ AnonIdle
    /\ AnalyzeIdle /\ AssembleIdle /\ LabelIdle /\ CollectIdle
    /\ NetlistIdle /\ GraphIdle /\ RerunIdle /\ ReviewIdle
    /\ RepairIdle /\ CombineIdle /\ EffortsIdle /\ ModuleIdle
    /\ FlowIdle
NextJudge == JudgeNext
SpecJudge == InitJudge /\ [][NextJudge]_vars

InitLabel ==
    SweepIdle /\ SynthIdle /\ AnonIdle /\ AnalyzeIdle
    /\ AssembleIdle /\ JudgeIdle /\ LabelInit /\ CollectIdle
    /\ NetlistIdle /\ GraphIdle /\ RerunIdle /\ ReviewIdle
    /\ RepairIdle /\ CombineIdle /\ EffortsIdle /\ ModuleIdle
    /\ FlowIdle
NextLabel == LabelNext
SpecLabel == InitLabel /\ [][NextLabel]_vars

\* the labeling tools left to run: no kill, and the program keeps stepping
NextLabelRun == LabelRun
SpecLabelRun == InitLabel /\ [][NextLabelRun]_vars /\ WF_vars(NextLabelRun)

InitCollect ==
    SweepIdle /\ SynthIdle /\ AnonIdle /\ AnalyzeIdle
    /\ AssembleIdle /\ JudgeIdle /\ LabelIdle /\ CollectInit
    /\ NetlistIdle /\ GraphIdle /\ RerunIdle /\ ReviewIdle
    /\ RepairIdle /\ CombineIdle /\ EffortsIdle /\ ModuleIdle
    /\ FlowIdle
NextCollect == CollectNext
SpecCollect == InitCollect /\ [][NextCollect]_vars

InitNetlist ==
    SweepIdle /\ SynthIdle /\ AnonIdle /\ AnalyzeIdle
    /\ AssembleIdle /\ JudgeIdle /\ LabelIdle /\ CollectIdle
    /\ NetlistInit /\ GraphIdle /\ RerunIdle /\ ReviewIdle
    /\ RepairIdle /\ CombineIdle /\ EffortsIdle /\ ModuleIdle
    /\ FlowIdle
NextNetlist == NetlistNext
SpecNetlist == InitNetlist /\ [][NextNetlist]_vars

InitGraph ==
    SweepIdle /\ SynthIdle /\ AnonIdle /\ AnalyzeIdle
    /\ AssembleIdle /\ JudgeIdle /\ LabelIdle /\ CollectIdle
    /\ NetlistIdle /\ GraphInit /\ RerunIdle /\ ReviewIdle
    /\ RepairIdle /\ CombineIdle /\ EffortsIdle /\ ModuleIdle
    /\ FlowIdle
NextGraph == GraphNext
SpecGraph == InitGraph /\ [][NextGraph]_vars

InitRerun ==
    SweepIdle /\ SynthIdle /\ AnonIdle /\ AnalyzeIdle
    /\ AssembleIdle /\ JudgeIdle /\ LabelIdle /\ CollectIdle
    /\ NetlistIdle /\ GraphIdle /\ RerunInit /\ ReviewIdle
    /\ RepairIdle /\ CombineIdle /\ EffortsIdle /\ ModuleIdle
    /\ FlowIdle
NextRerun == RerunNext
SpecRerun == InitRerun /\ [][NextRerun]_vars

InitReview ==
    SweepIdle /\ SynthIdle /\ AnonIdle /\ AnalyzeIdle
    /\ AssembleIdle /\ JudgeIdle /\ LabelIdle /\ CollectIdle
    /\ NetlistIdle /\ GraphIdle /\ RerunIdle /\ ReviewInit
    /\ RepairIdle /\ CombineIdle /\ EffortsIdle /\ ModuleIdle
    /\ FlowIdle
NextReview == ReviewNext
SpecReview == InitReview /\ [][NextReview]_vars

InitRepair ==
    SweepIdle /\ SynthIdle /\ AnonIdle /\ AnalyzeIdle
    /\ AssembleIdle /\ JudgeIdle /\ LabelIdle /\ CollectIdle
    /\ NetlistIdle /\ GraphIdle /\ RerunIdle /\ ReviewIdle
    /\ RepairInit /\ CombineIdle /\ EffortsIdle /\ ModuleIdle
    /\ FlowIdle
NextRepair == RepairNext
SpecRepair == InitRepair /\ [][NextRepair]_vars

InitCombine ==
    SweepIdle /\ SynthIdle /\ AnonIdle /\ AnalyzeIdle
    /\ AssembleIdle /\ JudgeIdle /\ LabelIdle /\ CollectIdle
    /\ NetlistIdle /\ GraphIdle /\ RerunIdle /\ ReviewIdle
    /\ RepairIdle /\ CombineInit /\ EffortsIdle /\ ModuleIdle
    /\ FlowIdle
NextCombine == CombineNext
SpecCombine == InitCombine /\ [][NextCombine]_vars

InitEfforts ==
    SweepIdle /\ SynthIdle /\ AnonIdle /\ AnalyzeIdle
    /\ AssembleIdle /\ JudgeIdle /\ LabelIdle /\ CollectIdle
    /\ NetlistIdle /\ GraphIdle /\ RerunIdle /\ ReviewIdle
    /\ RepairIdle /\ CombineIdle /\ EffortsInit /\ ModuleIdle
    /\ FlowIdle
NextEfforts == EffortsNext
SpecEfforts == InitEfforts /\ [][NextEfforts]_vars

InitModule ==
    SweepIdle /\ SynthIdle /\ AnonIdle /\ AnalyzeIdle
    /\ AssembleIdle /\ JudgeIdle /\ LabelIdle /\ CollectIdle
    /\ NetlistIdle /\ GraphIdle /\ RerunIdle /\ ReviewIdle
    /\ RepairIdle /\ CombineIdle /\ EffortsIdle /\ ModuleInit
    /\ FlowIdle
NextModule == ModuleNext
SpecModule == InitModule /\ [][NextModule]_vars

InitFlow ==
    SweepIdle /\ SynthIdle /\ AnonIdle /\ AnalyzeIdle
    /\ AssembleIdle /\ JudgeIdle /\ LabelIdle /\ CollectIdle
    /\ NetlistIdle /\ GraphIdle /\ RerunIdle /\ ReviewIdle /\ RepairIdle
    /\ CombineIdle /\ EffortsIdle /\ ModuleIdle /\ FlowInit
NextFlow == FlowNext
SpecFlow == InitFlow /\ [][NextFlow]_vars

-----------------------------------------------------------------------------
(* Claims about the synthesis orchestrator *)

\* the outcome codes as the specification gives them
ExpectedCode(o) == IF o = "timeout" THEN 1 ELSE IF o = "exit" THEN 2 ELSE 3

EffortRank(e) == CHOOSE i \in 1..3 : <<"low", "medium", "high">>[i] = e
\* position of a triple in the nested order: first axis slowest
NestedRank(t) == 9 * (EffortRank(t[1]) - 1) + 3 * (EffortRank(t[2]) - 1) + EffortRank(t[3])

FirstFailure(outs) ==
    IF \E k \in 1..Len(outs) : outs[k] # "ok"
    THEN CHOOSE k \in 1..Len(outs) :
            outs[k] # "ok" /\ \A j \in 1..(k - 1) : outs[j] = "ok"
    ELSE 0

\* C1: the combinations are started one at a time in the nested order (the k-th
\* started is the k-th of the product), and once the k-th invocation timed out
\* or failed exactly k combinations have been started, ever, and the sweep has
\* returned with the code of that outcome.
C1_ShortCircuit ==
    /\ \A k \in 1..Len(sw_started) : NestedRank(sw_started[k]) = k
    /\ Len(sw_started) - Len(sw_outcomes) = (IF sw_pc = "run" THEN 1 ELSE 0)
    /\ \A k \in 1..Len(sw_outcomes) :
          sw_outcomes[k] # "ok" =>
             /\ Len(sw_started) = k
             /\ sw_pc = "done"
             /\ sw_ret = <<sw_id, ExpectedCode(sw_outcomes[k])>>

\* the 5th of the 27 combinations timed out and the sweep has returned
C1_Witness ==
    /\ sw_pc = "done"
    /\ Len(sw_outcomes) = 5
    /\ sw_outcomes[5] = "timeout"

\* C2: the sweep returns 0 exactly when all 27 invocations completed normally,
\* and otherwise the code of the first invocation that did not.
C2_ReturnCode ==
    sw_pc = "done" =>
        /\ sw_ret[1] = sw_id
        /\ sw_ret[2] = 0 <=>
              (Len(sw_outcomes) = 27 /\ \A k \in 1..27 : sw_outcomes[k] = "ok")
        /\ sw_ret[2] # 0 =>
              /\ FirstFailure(sw_outcomes) # 0
              /\ sw_ret[2] = ExpectedCode(sw_outcomes[FirstFailure(sw_outcomes)])

\* a sweep that returned 0 after 27 normal invocations
C2_Witness ==
    /\ sw_pc = "done"
    /\ sw_ret = <<sw_id, 0>>
    /\ Len(sw_outcomes) = 27

ReturnedCode(id) ==
    LET i == CHOOSE i \in 1..Len(returned) : returned[i][1] = id
    IN  returned[i][2]

\* C3: when main has finished, the persisted success, timeout and fail lists
\* are pairwise disjoint, hold no id twice, together hold exactly the ids the
\* iterator yielded, and each id is in the list of the code its worker returned.
C3_Partition ==
    syn_pc = "done" =>
        LET s == synthesis_result.data[1]
            t == synthesis_result.data[2]
            f == synthesis_result.data[3]
        IN  /\ SeqToSet(s) \cap SeqToSet(t) = {}
            /\ SeqToSet(s) \cap SeqToSet(f) = {}
            /\ SeqToSet(t) \cap SeqToSet(f) = {}
            /\ NoDup(s \o t \o f)
            /\ SeqToSet(s \o t \o f) = SeqToSet(rtl_itr)
            /\ \A id \in SeqToSet(s) : ReturnedCode(id) = 0
            /\ \A id \in SeqToSet(t) : ReturnedCode(id) = 1
            /\ \A id \in SeqToSet(f) : ReturnedCode(id) \in {2, 3}

\* main finished after the second id completed before the first, one of them
\* timed out and the other failed
C3_Witness ==
    /\ syn_pc = "done"
    /\ Len(rtl_itr) = 2
    /\ results[1][1] = rtl_itr[2]
    /\ synthesis_result.data[2] # <<>>
    /\ synthesis_result.data[3] # <<>>

-----------------------------------------------------------------------------
(* Claims about the module anonymizer *)

\* the module names a text declares, in declaration order: the identifier
\* after each module keyword
RECURSIVE DeclaredFrom(_, _)
DeclaredFrom(s, j) ==
    IF j > Len(s) THEN <<>>
    ELSE IF j >= 3 /\ s[j - 2] = "module" /\ IsSpace(s[j - 1]) /\ IsWord(s[j])
         THEN <<s[j]>> \o DeclaredFrom(s, j + 1)
         ELSE DeclaredFrom(s, j + 1)

Declared(s) == DeclaredFrom(s, 1)

\* C4: for a text with N distinct module declarations, the returned text
\* declares anonymized_module_0 .. anonymized_module_(N-1) in that order, every
\* whole-word occurrence of an original name has become that module's synthetic
\* name, and the returned mapping pairs the N originals with the N synthetic
\* names one to one.
C4_Anonymized ==
    (an_pc = "done" /\ NoDup(Declared(an_src))) =>
        LET orig == Declared(an_src)
            N == Len(orig)
            Synth(name) == AnonName((CHOOSE k \in 1..N : orig[k] = name) - 1)
            ws == SelectSeq(an_src, IsWord)
            wo == SelectSeq(an_out, IsWord)
            pairs == { IF an_variant = "rtl" THEN <<q[2], q[1]>> ELSE q :
                          q \in SeqToSet(an_map) }
        IN  /\ Declared(an_out) = [k \in 1..N |-> AnonName(k - 1)]
            /\ Len(wo) = Len(ws)
            /\ \A i \in 1..Len(ws) :
                  ws[i] \in SeqToSet(orig) => wo[i] = Synth(ws[i])
            /\ Len(an_map) = N
            /\ pairs = { <<orig[k], AnonName(k - 1)>> : k \in 1..N }

\* C5: the returned text differs from the input only where the input holds a
\* whole-word occurrence of a declared module name: blanks, parameter blocks,
\* punctuation and all other identifiers are where they were.
C5_Frame ==
    an_pc = "done" =>
        /\ Len(an_out) = Len(an_src)
        /\ \A i \in 1..Len(an_src) :
              an_src[i] \notin SeqToSet(Declared(an_src)) => an_out[i] = an_src[i]

-----------------------------------------------------------------------------
(* Claims about the RTL dataset assembler and the analyzer *)

\* C6: with dataflow-analysis results available, every assembled record has
\* dataflow_status true exactly when its design declares at least one module
\* and (rtl_id, module) is in dataflow_success for every declared module.
C6_DataflowStatus ==
    asm_dataflow.exists =>
        \A i \in 1..Len(asm_records) :
            LET rec == asm_records[i]
                modules == Declared(rec.verilog)
            IN  /\ "dataflow_status" \in DOMAIN rec
                /\ rec.dataflow_status <=>
                      /\ modules # <<>>
                      /\ \A k \in 1..Len(modules) :
                            <<rec.rtl_id, modules[k]>> \in SeqToSet(asm_dataflow.data)

\* the label the specification gives record rtl_id
ExpectedConsistentLabel(rtl_id) ==
    IF /\ rtl_id \in SeqToSet(asm_synth[1])
       /\ DictHas(asm_gpt.data, rtl_id)
       /\ DictHas(asm_llama.data, rtl_id)
       /\ DictGet(asm_gpt.data, rtl_id) = DictGet(asm_llama.data, rtl_id)
    THEN DictGet(asm_gpt.data, rtl_id)
    ELSE ""

\* C7: with both prediction files available, once the assembler has stopped
\* every RTL id has a record, and a record's consistent_label is the common
\* label when synthesis succeeded and both predictions exist and agree, and
\* the empty string in every other case, a missing prediction included.
C7_ConsistentLabel ==
    (asm_llama.exists /\ asm_gpt.exists) =>
        /\ \A i \in 1..Len(asm_records) :
              asm_records[i].consistent_label =
                  ExpectedConsistentLabel(asm_records[i].rtl_id)
        /\ asm_pc \in {"done", "crashed"} =>
              \A rtl_id \in 0..(NumAssembled - 1) :
                  \E i \in 1..Len(asm_records) : asm_records[i].rtl_id = rtl_id

\* C8: no outcome of a subprocess aborts the analyzer: the run never stops on
\* an exception, every id below idx has its syntax outcome recorded and every
\* module of it its dataflow outcome, and the run ends with idx = num_data.
C8_NeverAborts ==
    /\ az_pc # "aborted"
    /\ az_pc \in {"loop", "done"} =>
          \A idx \in 0..(az_idx - 1) :
              /\ idx \in SeqToSet(syntax_success) \cup SeqToSet(syntax_fail)
              /\ \A m \in SeqToSet(Declared(az_codes[idx])) :
                    <<idx, m>> \in SeqToSet(dataflow_success) \cup SeqToSet(dataflow_fail)
    /\ az_pc = "done" => az_idx = NumData

-----------------------------------------------------------------------------
(* Claims about the batch loops *)

\* C9: when the run has ended, every key whose field is present in all the
\* datasets has been sent to the model in some batch, whatever keys were
\* skipped and whatever max_batch_size is.
C9_AllEligibleSubmitted ==
    jd_pc = "done" =>
        \A k \in Keys : jd_eligible[k] => jd_submitted[k] >= 1

\* C10: in the judge, once the run has ended every key that was sent in a batch
\* either had its verdict written after that batch (and was sent once), or is
\* on the skipped list and was sent exactly once more; no key is sent more
\* than twice.
C10_WrittenOrRetried ==
    /\ \A k \in DOMAIN jd_submitted : jd_submitted[k] <= 2
    /\ (jd_tool = "judge" /\ jd_pc = "done") =>
          \A k \in Keys :
              jd_submitted[k] >= 1 =>
                  \/ /\ k \in jd_output
                     /\ k \notin SeqToSet(skipped_items)
                     /\ jd_submitted[k] = 1
                  \/ /\ k \in SeqToSet(skipped_items)
                     /\ jd_submitted[k] = 2

-----------------------------------------------------------------------------
(* Claims about the labeling tools *)

\* the results obtained before the request in flight
Earlier(res) == SubSeq(res, 1, Len(res) - 1)
OnDisk(f) == IF lb_disk[f].exists THEN SeqToSet(lb_disk[f].data) ELSE {}

\* C11: whenever a labeling tool is killed, the results of all requests but
\* the one in flight are in the tool's output file on disk.
C11_CheckpointSurvivesKill ==
    lb_pc = "killed" =>
        SeqToSet(Earlier(lb_results)) \subseteq OnDisk(LabelFile(lb_tool, lb_phase))

\* the requests the remote-API loop issued for one item, in order
RequestsOf(item) == SelectSeq(lb_log, LAMBDA e : e[1] = item)

RetriesBounded ==
    \A item \in 1..NumItems :
        LET r == RequestsOf(item)
        IN  /\ Len(r) <= 1 + MaxRetries
            /\ \A k \in 1..Len(r) :
                  /\ r[k][2] = "ok" => k = Len(r)
                  /\ r[k][2] # "ok" => r[k][3] = RetryWait
GivesUpAndGoesOn ==
    \* the items are taken in order; an item the loop has left was answered or
    \* was tried 1 + MaxRetries times
    /\ \A k \in 1..(Len(lb_log) - 1) : lb_log[k][1] <= lb_log[k + 1][1]
    /\ \A item \in 1..NumItems :
          (lb_tool = "predict" /\ (lb_pc = "done" \/ (lb_phase = "gpt" /\ item < lb_i)))
              => \/ item > lb_n
                 \/ item \in SeqToSet(lb_results)
                 \/ Len(RequestsOf(item)) = 1 + MaxRetries

\* C13: the remote-API loop issues at most 8 requests per item, none after
\* the item's first success, waits 10 seconds after every failed one, goes on
\* with the next item after the 8th failure, and the run terminates.
C13_BoundedRetries ==
    /\ [](RetriesBounded /\ GivesUpAndGoesOn)
    /\ <>(lb_pc = "done")
\* item 1 was given up after 8 failed requests, item 2 answered, the run ended
C13_Witness ==
    /\ lb_pc = "done" /\ lb_tool = "predict"
    /\ Len(RequestsOf(1)) = 1 + MaxRetries
    /\ lb_results = <<2>>

-----------------------------------------------------------------------------
(* Claims about the checkpoints of the synthesis orchestrator *)

IsPrefix(s, t) == Len(s) <= Len(t) /\ SubSeq(t, 1, Len(s)) = s
LogOnDisk == IF ck_log.exists THEN ck_log.data ELSE <<>>

\* C12: whenever the orchestrator is killed, the temporary log on disk holds
\* at least the results that the last completed checkpoint wrote (the first
\* 100*floor(n/100) of them while results are collected, all of them after
\* the dump that follows the loop), until synthesis_result.pkl is persisted.
C12_LogSurvivesKill ==
    (ck_pc = "killed" /\ ~ck_result.exists) =>
        /\ IsPrefix(SubSeq(ck_results, 1, ck_saved), LogOnDisk)
        /\ ck_saved >= CheckpointEvery * ((Len(ck_results) - 1) \div CheckpointEvery)

-----------------------------------------------------------------------------
(* Claims about the netlist dataset assembler and the netlist exporter *)

PositionIn(s, x) == CHOOSE i \in 1..Len(s) : s[i] = x
\* place of a record's pair in the enumeration: success-list order, then effort order
EnumerationRank(rec) ==
    PositionIn(nl_success, rec.rtl_id) * NumCombinations
        + PositionIn(EffortStrings, rec.synthesis_efforts)
RecordsOf(id, effort) ==
    { i \in 1..Len(nl_json.data) :
        /\ nl_json.data[i][2].rtl_id = id
        /\ nl_json.data[i][2].synthesis_efforts = effort }

\* C14: netlist.json holds exactly one record for every (rtl_id, effort) pair
\* of a synthesis-successful rtl_id that is not in the failure list, none for
\* any other pair, and the row ids are 0..K-1 in enumeration order.
C14_NetlistRecords ==
    nl_json.exists =>
        /\ \A id \in 0..(NumData - 1), k \in 1..NumCombinations :
              Cardinality(RecordsOf(id, EffortStrings[k])) =
                 IF InList(id, nl_success) /\ <<id, EffortStrings[k]>> \notin nl_fail
                 THEN 1 ELSE 0
        /\ \A i \in 1..Len(nl_json.data) :
              /\ nl_json.data[i][1] = i - 1
              /\ nl_json.data[i][2].rtl_id \in 0..(NumData - 1)
              /\ nl_json.data[i][2].synthesis_efforts \in SeqToSet(EffortStrings)
        /\ \A i, j \in 1..Len(nl_json.data) :
              i < j => EnumerationRank(nl_json.data[i][2]) < EnumerationRank(nl_json.data[j][2])
\* two successful designs, two failed pairs: 52 records
C14_Witness ==
    /\ nl_json.exists
    /\ Len(nl_success) = 2 /\ Cardinality(nl_fail) = 2
    /\ Len(nl_json.data) = 2 * NumCombinations - 2

\* C15: every record of netlist.json carries graphgen_status, true for the
\* pairs not in the failure list, and the exporter can read it from every record.
C15_GraphgenStatus ==
    /\ nl_json.exists =>
          \A i \in 1..Len(nl_json.data) :
              /\ "graphgen_status" \in DOMAIN nl_json.data[i][2]
              /\ nl_json.data[i][2].graphgen_status
    /\ nl_pc = "done" => nl_error # "KeyError"

\* C17: a record whose graph file is missing does not stop the netlist
\* exporter with an error.
C17_MissingGraphTolerated ==
    nl_pc = "done" => nl_error # "FileNotFoundError"

-----------------------------------------------------------------------------
(* Claims about the netlist graph generator *)

IsTags(netlist) == netlist # <<"missing">> /\ netlist # <<"unparsable">>
InVocabulary(tag) == \E i \in 1..Len(types) : types[i] = tag

\* C16: each node of a persisted graph has the type 0..13 that is the index
\* of its tag in the vocabulary, distinct tags have distinct codes, and a
\* netlist with a tag outside the vocabulary persists no graph and puts its
\* pair on the failure list.
C16_TypeVocabulary ==
    gg_pc = "done" =>
        /\ \A p \in DOMAIN gg_graphs :
              /\ IsTags(gg_netlists[p])
              /\ Len(gg_graphs[p]) = Len(gg_netlists[p])
              /\ \A i \in 1..Len(gg_graphs[p]) :
                    /\ gg_graphs[p][i].type \in 0..13
                    /\ types[gg_graphs[p][i].type + 1] = gg_netlists[p][i]
        /\ \A i, j \in 1..Len(types) :
              type_mapping(types[i]).code = type_mapping(types[j]).code => i = j
        /\ \A p \in DOMAIN gg_netlists :
              (IsTags(gg_netlists[p])
                  /\ \E i \in 1..Len(gg_netlists[p]) : ~InVocabulary(gg_netlists[p][i]))
              => (p \notin DOMAIN gg_graphs /\ InList(p, gg_fail.data))
\* a run that persisted the graphs of the plain netlists and failed one netlist
\* for a tag outside the vocabulary
C16_Witness ==
    /\ gg_pc = "done"
    /\ \E p \in DOMAIN gg_netlists :
          /\ gg_netlists[p] = <<"bb_output", "dff">>
          /\ gg_fail.data = <<p>>
    /\ \E p \in DOMAIN gg_graphs : gg_graphs[p][1].type = 0

Occurrences(s, x) == Cardinality({i \in 1..Len(s) : s[i] = x})

\* C24: after the run, for every task (rtl_id, effort): syn_copy.v is gone,
\* and exactly one of these holds: the task wrote the graph file and the pair
\* is not reported as failed, or the pair is reported as failed and no graph
\* file of the pair is left; a pair is reported (and was run) at most once.
C24_GraphOrFailure ==
    gg_pc = "done" =>
        \A p \in DOMAIN gg_netlists :
            LET failed == InList(p, gg_fail.data)
                wrote == p \in DOMAIN gg_graphs
                file_left == wrote \/ p \in gg_truncated
            IN  /\ p \notin gg_copies
                /\ (wrote /\ ~failed) # (failed /\ ~file_left)
                /\ Occurrences(gg_fail.data, p) <= 1

-----------------------------------------------------------------------------
(* Claims about re-running the synthesis stage *)

Completed(run, k) == k <= Len(rr_outcomes[run]) /\ rr_outcomes[run][k] = "ok"

\* C18: after a second run of the synthesis stage with the same tool outcomes
\* the design's files are what the first run left, and in any case no syn.v
\* of the first run is left for a combination the second run did not complete.
C18_IdempotentRerun ==
    rr_pc = "done" =>
        /\ rr_outcomes[1] = rr_outcomes[2] =>
              /\ rr_files.log = rr_first.log
              /\ rr_files.cmd = rr_first.cmd
              /\ { k \in 1..NumCombinations : rr_files.synv[k] # 0 }
                    = { k \in 1..NumCombinations : rr_first.synv[k] # 0 }
              /\ rr_files.code = rr_first.code
        /\ \A k \in 1..NumCombinations : ~Completed(2, k) => rr_files.synv[k] = 0

-----------------------------------------------------------------------------
(* Claims about the review pass and the repairs of the judge *)

\* C19: for every judged item, whichever field was compared, the item is in
\* the low-similarity partition iff one of its two candidates scored strictly
\* below the threshold, and in the component-mismatch partition iff the two
\* candidates' Design_Type or Design_Name differ.
C19_ReviewPartitions ==
    rv_pc = "done" =>
        \A i \in 1..Len(rv_judged) :
            LET c1 == rv_judged[i][2][CandidateKey(rv_field, 1)]
                c2 == rv_judged[i][2][CandidateKey(rv_field, 2)]
            IN  /\ InList(rv_judged[i][1], rv_low.data)
                      <=> (c1.Similarity_Score < threshold \/ c2.Similarity_Score < threshold)
                /\ InList(rv_judged[i][1], rv_mismatch.data)
                      <=> (c1.Design_Type # c2.Design_Type \/ c1.Design_Name # c2.Design_Name)


Valid(n) == JsonLoads(Repair(n, response_text, rp_error.pos)).ok
ParseFailed == rp_pc = "done" /\ ~rp_error.ok

-----------------------------------------------------------------------------
(* Claims about the CSV combination *)

\* C21: BRIDGES.csv holds as many rows as the two inputs together; every row
\* of the MGVerilog corpus (the second of "RTLCoder and MGVerilog" in the
\* script's docstring) has its id raised by exactly 1,000,000 and its other
\* cells unchanged; every row of the RTLCoder corpus is unchanged.
C21_CombinedRows ==
    cb_pc = "done" =>
        LET out == cb_out.data
            m == Len(MGverilog)
        IN  /\ cb_out.exists
            /\ Len(out) = m + Len(RTLCoder)
            /\ \A i \in 1..m :
                  /\ out[i].id = MGverilog[i].id + 1000000
                  /\ out[i].rest = MGverilog[i].rest
            /\ \A i \in 1..Len(RTLCoder) : out[m + i] = RTLCoder[i]

\* both corpora hold rows, so that an id was raised and an id was kept
C21_Witness ==
    /\ cb_pc = "done"
    /\ Len(MGverilog) = NumCsvRows
    /\ Len(RTLCoder) = NumCsvRows
    /\ Len(cb_out.data) = 2 * NumCsvRows

DistinctIds(rows) == \A i, j \in 1..Len(rows) : rows[i].id = rows[j].id => i = j

\* C28 as stated: whenever the ids are unique within each input, no two rows
\* of BRIDGES.csv have the same id, whatever ids the un-offset corpus holds.
C28_UniqueIds ==
    cb_pc = "done" /\ DistinctIds(MGverilog) /\ DistinctIds(RTLCoder)
        => DistinctIds(cb_out.data)

\* C28 amended: whenever the ids are non-negative and unique within each
\* input and the un-offset corpus holds only ids below 1,000,000, no two rows
\* of BRIDGES.csv have the same id.
C28_UniqueIdsBelowOffset ==
    (/\ cb_pc = "done"
     /\ DistinctIds(MGverilog) /\ DistinctIds(RTLCoder)
     /\ \A i \in 1..Len(MGverilog) : MGverilog[i].id >= 0
     /\ \A i \in 1..Len(RTLCoder) : RTLCoder[i].id >= 0 /\ RTLCoder[i].id < 1000000)
        => DistinctIds(cb_out.data)

\* the two corpora hold the same ids, all below the offset
C28_Witness ==
    /\ cb_pc = "done"
    /\ Len(MGverilog) = NumCsvRows
    /\ Len(RTLCoder) = NumCsvRows
    /\ \A i \in 1..NumCsvRows : MGverilog[i].id = RTLCoder[i].id /\ RTLCoder[i].id < 1000000
    /\ DistinctIds(cb_out.data)

-----------------------------------------------------------------------------
(* Claims about the effort enumeration *)

EffortsDone == \A p \in EffortPrograms : ef_at[p] = ProductEnd

\* C22: the three programs enumerate the same effort strings in the same
\* order (each is at all times a prefix of the common sequence), and the
\* complete enumeration is 27 pairwise distinct strings g_m_o over
\* low/medium/high, generic outermost and optimization innermost, from
\* low_low_low to high_high_high.
C22_SameEfforts ==
    /\ \A p, q \in EffortPrograms :
          Len(ef_out[p]) <= Len(ef_out[q])
              => ef_out[p] = SubSeq(ef_out[q], 1, Len(ef_out[p]))
    /\ EffortsDone =>
          \A p \in EffortPrograms :
              /\ Len(ef_out[p]) = 27
              /\ NoDup(ef_out[p])
              /\ ef_out[p][1] = "low_low_low"
              /\ ef_out[p][27] = "high_high_high"
              /\ \A g, m, o \in 1..3 :
                    ef_out[p][9 * (g - 1) + 3 * (m - 1) + o]
                        = efforts[g] \o "_" \o efforts[m] \o "_" \o efforts[o]
              /\ ef_out[p] = EffortStrings

\* the three enumerations are complete
C22_Witness ==
    /\ EffortsDone
    /\ \A p \in EffortPrograms : Len(ef_out[p]) = NumCombinations

-----------------------------------------------------------------------------
(* Claims about analyze_rtl *)

\* analyze_rtl has been called on idx: it returned, or it raised
AnalyzeCalled(idx) == idx < az_idx \/ (idx = az_idx /\ az_pc = "aborted")

\* C23: every module found in a design analyze_rtl was called on has its pair
\* (id, module) in exactly one of dataflow_success and dataflow_fail, in
\* dataflow_success only with the dataflow text and the graph both written
\* (whatever happened to the modules before it), and the result file lists
\* every pair of every id completed so far.
C23_EveryModuleRecorded ==
    \A idx \in 0..(NumData - 1) :
        AnalyzeCalled(idx) =>
            LET modules == FindModules(az_codes[idx], 1)
            IN  \A k \in 1..Len(modules) :
                    LET pair == <<idx, modules[k]>>
                    IN  /\ InList(pair, dataflow_success) # InList(pair, dataflow_fail)
                        /\ InList(pair, dataflow_success) =>
                              /\ <<idx, modules[k], "txt">> \in az_files
                              /\ \E o \in {"ok", "none"} :
                                    GraphFile(idx, modules[k], o) \in az_files
                        /\ idx < az_idx =>
                              /\ az_pkl.exists
                              /\ InList(pair, az_pkl.data[3]) = InList(pair, dataflow_success)
                              /\ InList(pair, az_pkl.data[4]) = InList(pair, dataflow_fail)

-----------------------------------------------------------------------------
(* Claims about create_module_graph *)

\* the identifiers of the nodes of the transformed graphs, one per node
HandedOut ==
    [kind \in {"op", "signal"} |->
        {<<g, i>> \in (1..Len(transformed_graphs)) \X (1..(2 * NumSignals + 2)) :
            /\ i <= Len(transformed_graphs[g].nodes)
            /\ transformed_graphs[g].nodes[i].name[1] = kind}]
IdOf(x) == transformed_graphs[x[1]].nodes[x[2]].name

\* C25: within one call, no two nodes of the transformed signal graphs carry
\* the same op_<n> or signal_<n> identifier, and each counter stands at the
\* number of identifiers of its kind handed out so far, the identifiers
\* being 0 .. counter-1: it only grew and was never reset.
C25_DistinctIdentifiers ==
    mg_pc \in {"process", "compose", "merge", "done"} =>
        /\ \A kind \in {"op", "signal"} :
              \A x, y \in HandedOut[kind] : IdOf(x) = IdOf(y) => x = y
        /\ {IdOf(x)[2] : x \in HandedOut["op"]} = 0..(op_id_counter - 1)
        /\ {IdOf(x)[2] : x \in HandedOut["signal"]} = 0..(signal_id_counter - 1)

\* two subgraphs with operator and signal nodes were renamed
C25_Witness ==
    /\ mg_pc = "done"
    /\ ~module_graph.none
    /\ Len(transformed_graphs) = NumSignals
    /\ op_id_counter >= 2
    /\ signal_id_counter >= 4

SignalNodes(g) == {i \in 1..Len(g.nodes) : g.nodes[i].name[1] = "signal"}

\* the node of the returned graph that stands for node name of the composed
\* graph: the main node of its label, or the node itself
Survivor(name) ==
    LET n == mg_composed.nodes[CHOOSE i \in 1..Len(mg_composed.nodes) :
                                   mg_composed.nodes[i].name = name]
    IN  IF IsMergeable(n) THEN MainNode(mg_composed, n) ELSE name

\* C26: in the graph returned, every signal_<n> node carries a label, no two
\* signal_<n> nodes carry the same label, and every edge of the composed
\* graph exists between the surviving nodes of its two ends.
C26_LabelIsKey ==
    (mg_pc = "done" /\ ~module_graph.none) =>
        /\ \A i \in SignalNodes(module_graph) : module_graph.nodes[i].label # ""
        /\ \A i, j \in SignalNodes(module_graph) :
              module_graph.nodes[i].label = module_graph.nodes[j].label => i = j
        /\ \A e \in mg_composed.edges :
              <<Survivor(e[1]), Survivor(e[2])>> \in module_graph.edges

-----------------------------------------------------------------------------
(* Claims about the graph artifact of a module *)

\* C29: a pair (id, module) is in dataflow_success only if a module graph was
\* produced for it: when create_module_graph returned no graph, the pair is
\* in dataflow_fail and no graph artifact of the module is stored.
C29_SuccessHasGraph ==
    \A i \in 1..Len(dataflow_success) :
        LET pair == dataflow_success[i]
        IN  /\ <<pair[1], pair[2], "pkl">> \in az_files
            /\ <<pair[1], pair[2], "pkl_none">> \notin az_files

-----------------------------------------------------------------------------
(* Claims about the RTL ids between the iterator and the assembler *)

\* the ids the assembler's loop visits, given the three lists of the
\* synthesis result (generate_rtl_json.py line 90)
RtlIdRange(lists) == 0..(Len(lists[1]) + Len(lists[2]) + Len(lists[3]) - 1)

\* the ids whose working directory process_rtl has created
WorkingDirs == {returned[i][1] : i \in 1..Len(returned)}

\* C30: the ids the corpus iterator yields are exactly 0..N-1, N the number
\* of designs yielded, also when the corpus has blank lines; so the range
\* the assembler loops over is the set of ids that have a working directory.
C30_DenseRtlIds ==
    /\ SeqToSet(rtl_itr) = 0..(Len(rtl_itr) - 1)
    /\ synthesis_result.exists =>
          RtlIdRange(synthesis_result.data) = WorkingDirs

-----------------------------------------------------------------------------
(* Claims about the file layout shared by the stages *)

\* C27: with the stages run in dependency order on one base data directory,
\* every stage finds every artifact it looks for, at the path and under the
\* key where the producing stage wrote it: no stage looks for one in vain.
C27_ArtifactsFound == fl_missed = {}
====
